---- MODULE Spec2Model ----
(***************************************************************************)
(* Verification model of the orca-shipnoise batch correlation pipeline:    *)
(*   Transit Extractor   scripts/process/ais_to_transits.py                *)
(*                       scripts/process/ais_to_transits_orcasound_lab.py  *)
(*   Window Matcher      scripts/process/match_all_transits_to_ts.py       *)
(*   Relevance/Dedup     scripts/process/merge_and_dedup.py                *)
(*   Segment Selector    scripts/process/extract_loudest_segment.py        *)
(*   Live collector      scripts/collect/ais_collect.py                    *)
(*                       scripts/collect/ais_collect_sunset_bay.py         *)
(*                                                                         *)
(* Units.  Times of position reports are in milliseconds (parse_time keeps *)
(* sub-second precision, to_utc_iso drops it).  Distances to the station   *)
(* are in centimetres; cpa_distance_m, which the code rounds to 0.1 m, is  *)
(* in decimetres.  Segment and CPA times of the matcher are in seconds.    *)
(***************************************************************************)
EXTENDS Integers, Sequences, FiniteSets, TLC

VARIABLES
    fsCaseSensitive, \* whether the file system tells "sunset_bay_data" from "Sunset_Bay_data"
    stationDir,    \* name of the directory under Sites/ that holds the raw file ("" before it exists)
    rawMeta,       \* first line of the raw file: [written, site]
    feedLines,     \* message lines of one ais_raw_*.jsonl file after the first line, in file order
    staticCache,   \* static_cache.json of the station: MMSI -> static ship data
    cacheReadable, \* whether json.load succeeds on static_cache.json
    extractor,     \* the last extractor run over the file: "none", "generic", "lab",
                   \* or "crashed" when it ended with an uncaught exception
    transitsCsv    \* rows of the *_transits_filtered.csv of the file

collectVars == <<fsCaseSensitive, stationDir, rawMeta>>
extractVars == <<feedLines, staticCache, cacheReadable, extractor, transitsCsv>>

VARIABLES
    tsFiles,       \* the station's timestamp index files: day label -> [exists, rows]
    tsLoaded,      \* what load_timestamp_dataframe returned: [ok, rows] (ts_df or None)
    usedFiles,     \* its used_files list (labels)
    tsReads,       \* labels of the index files pd.read_csv was called on
    dstNote,       \* the DST message load_timestamp_dataframe printed
    matcher,       \* "none", "skipped" (site skipped) or "done"
    windowedCsv    \* rows of the *_transits_windowed.csv

matchVars == <<tsFiles, tsLoaded, usedFiles, tsReads, dstNote, matcher, windowedCsv>>

VARIABLES
    siblingWindowed, \* rows of the other *_windowed.csv files of the day folder
    merger,        \* "none", "skipped" or "done"
    mergedCsv,     \* rows of {DATE}_windowed_merged.csv
    relRow,        \* a row handed to is_acoustically_relevant
    relResult      \* "unset", "relevant" or "dropped"

mergeVars == <<siblingWindowed, merger, mergedCsv, relRow, relResult>>

VARIABLES
    s3,            \* the audio bucket: URL -> what a GET on it gives ("ok", "404", "error")
    selSite,       \* site_name of process_day: the site directory without "_data"
    selRanges,     \* parse_segment_ranges of the row of the windowed_merged.csv
    selector,      \* the last process_day: "none", "done", or "crashed"
    fetchLog,      \* the GET requests of the last process_day, in order: [url, resp]
    wavFiles,      \* its wav_files list: the (folder, seg_int) it downloaded
    candidate,     \* its candidate: [center, merge, saved, ratio, delta_L, conf, out]
    summary,       \* its summary list
    summaryCsv,    \* rows of loudness_summary_{date}.csv
    clipFiles      \* the *_30s.wav files of output_audio/{date}: out_name -> segments

selectVars == <<s3, selSite, selRanges, selector, fetchLog, wavFiles, candidate,
                summary, summaryCsv, clipFiles>>

VARIABLES
    clsInput,      \* arguments of a call of classify_confidence: [ratio, delta_L, site_name]
    clsResult      \* "unset" or what the call returned

classifyVars == <<clsInput, clsResult>>

VARIABLES
    colVariant,    \* which collector runs: "generic" (ais_collect.py) or "sunset_bay"
    colPc,         \* where main is: "start", "reading", "sleeping", "retry", "done"
                   \* (returned) or "failed" (ended with an exception)
    colAttempt,    \* number of collect_once calls started
    colRaisedAt,   \* the times at which a collect_once call raised
    colClock,      \* datetime.now(timezone.utc), in seconds, followed up to MaxClock
    colPhase,      \* alternates with every step of the clock, also beyond MaxClock
    colDeadline,   \* deadline of the running collect_once call
    colWake,       \* when asyncio.sleep(5) is over
    colFile,       \* lines of out_path, the ais_raw_*.jsonl file of the run
    colFeedSeq     \* number of messages the feed has delivered

collectorVars == <<colVariant, colPc, colAttempt, colRaisedAt, colClock, colPhase,
                   colDeadline, colWake, colFile, colFeedSeq>>

VARIABLES
    raceCache,     \* static_cache.json of a station on which two extraction runs work
    racePc,        \* per run: "idle", "loaded", "processed" or "saved"
    raceMem,       \* per run: its static_cache dictionary in memory
    raceInput,     \* per run: the lines of the raw files it processes
    raceLog        \* the loads and saves of the cache file, in order: [run, op]

raceVars == <<raceCache, racePc, raceMem, raceInput, raceLog>>

VARIABLES
    readRow,       \* index of the windowed row process_day has read (0: none yet)
    segRaw,        \* seg_raw: the text of its segment_range column
    parsedRanges   \* what parse_segment_ranges(seg_raw) gave: [ranges, raised]

readVars == <<readRow, segRaw, parsedRanges>>

\* The variables of the live collector and of the checks across stages
moreVars == <<collectorVars, raceVars, readVars>>

\* The variables of the stages after the merge
laterVars == <<selectVars, classifyVars, moreVars>>

vars == <<collectVars, extractVars, matchVars, mergeVars, laterVars>>

----------------------------------------------------------------------------
(* Generic helpers                                                         *)

RECURSIVE SeqMin(_)
SeqMin(s) ==
    IF Len(s) = 1 THEN s[1]
    ELSE LET m == SeqMin(Tail(s)) IN IF s[1] <= m THEN s[1] ELSE m

SetMin(S) == CHOOSE x \in S : \A y \in S : x <= y
SetMax(S) == CHOOSE x \in S : \A y \in S : x >= y

\* out = row.to_dict(); out.update({...})
DictUpdate(row, upd) ==
    [k \in DOMAIN row \cup DOMAIN upd |-> IF k \in DOMAIN upd THEN upd[k] ELSE row[k]]

----------------------------------------------------------------------------
(* Site names and directories                                              *)

\* str.replace("-", "_") on the site names of the model
ReplaceDash(s) ==
    CASE s = "sunset-bay" -> "sunset_bay"
      [] s = "Sunset-Bay" -> "Sunset_Bay"
      [] s = "bush-point" -> "bush_point"
      [] s = "orcasound-lab" -> "orcasound_lab"
      [] OTHER -> s

\* str.lower() on the site and directory names of the model
Lower(s) ==
    CASE s = "Sunset_Bay" -> "sunset_bay"
      [] s = "Sunset-Bay" -> "sunset-bay"
      [] s = "Sunset_Bay_data" -> "sunset_bay_data"
      [] s = "Bush_Point_data" -> "bush_point_data"
      [] s = "Orcasound_Lab_data" -> "orcasound_lab_data"
      [] s = "Port_Townsend_data" -> "port_townsend_data"
      [] OTHER -> s

\* f"{name}_data"
DataDir(s) ==
    CASE s = "sunset_bay" -> "sunset_bay_data"
      [] s = "Sunset_Bay" -> "Sunset_Bay_data"
      [] s = "bush_point" -> "bush_point_data"
      [] s = "orcasound_lab" -> "orcasound_lab_data"
      [] OTHER -> "_data"

\* Whether two names under Sites/ denote the same directory
SameDir(a, b) == a = b \/ (~fsCaseSensitive /\ Lower(a) = Lower(b))

\* SITES of match_all_transits_to_ts.py and merge_and_dedup.py
SITES == {"Bush_Point_data", "Orcasound_Lab_data", "Port_Townsend_data", "Sunset_Bay_data"}

\* os.path.isdir(os.path.join(SITES_DIR, site)) for some site of SITES that is
\* the directory holding the station's files
SiteDirFound == \E site \in SITES : SameDir(stationDir, site)

\* ais_collect.py main up to the _meta line: the raw file is created under
\* Sites/{slug with "_" for "-"}_data and starts with {"_meta": {"site": slug, ...}}
Collect(slug) ==
    /\ ~rawMeta.written
    /\ rawMeta' = [written |-> TRUE, site |-> slug]
    /\ stationDir' = DataDir(ReplaceDash(slug))
    /\ UNCHANGED <<fsCaseSensitive, extractVars, matchVars, mergeVars, laterVars>>

----------------------------------------------------------------------------
(* Transit Extractor                                                       *)

\* Bounds of the explored input
MaxLines == 3

\* ais_to_transits.py constants
RADIUS_M == 30000
CPA_MAX_M == 20000
MIN_SOG_KT == 2
MIN_POINTS == 3
MIN_DWELL_SEC == 60
HIGH_QUALITY_THRESHOLD == 1000

\* ais_to_transits_orcasound_lab.py constants that differ
CPA_MAX_M_LAB == 3000
MIN_SOG_KT_LAB == 5
HIGH_QUALITY_THRESHOLD_LAB == 500
SITE_NAME == "Orcasound_Lab"
BASE_DIR_LAB == "Orcasound_Lab_data"

NoSog == -1          \* "Sog" absent from the message (None / NaN in the frame)
NoLength == 0        \* length_m absent (None / NaN): A + B = 0 is stored as None

Vessels == {"366000001", "366000002"}
ReportTimes == {0, 1500, 61500}                       \* ms
ReportDists == {99996, 2000000, 2000004, 3000001}     \* cm
ReportSogs == {NoSog, 1, 2}                           \* knots

\* The records process_file appends for the PositionReport lines it accepts.
\* The second vessel only sends one kind of report: it is there to interleave
\* with the first one's reports.
Reports ==
    [kind : {"PositionReport"}, mmsi : {"366000001"},
     time : ReportTimes, dist : ReportDists, sog : ReportSogs]
    \cup [kind : {"PositionReport"}, mmsi : {"366000002"},
          time : ReportTimes, dist : {99996}, sog : {NoSog}]

\* static_cache.get(mmsi, {}).get("length_m")
CachedLength(cache, m) == IF m \in DOMAIN cache THEN cache[m].length_m ELSE NoLength

\* length = (dim.get("A") or 0) + (dim.get("B") or 0) or None
LengthOfDimension(a, b) == IF a + b = 0 THEN NoLength ELSE a + b

\* Lines that are not a well-formed PositionReport or ShipStaticData message:
\*   "MalformedJson"  json.loads raises
\*   "NotAnObject"    valid JSON that is not an object (a number, a list, null)
\*   "NonTextTime"    a PositionReport whose time_utc is a number
\*   "BadTimestamp"   a PositionReport whose time_utc matches neither format
\*   "NoCoordinate"   a PositionReport without latitude or longitude
BadKinds == {"MalformedJson", "NotAnObject", "NonTextTime", "BadTimestamp", "NoCoordinate"}

\* parse_time on the time_utc of a line: "value" for text in one of the two
\* formats, "None" for text in neither, "raised" for a value without .replace
parse_time(l) ==
    CASE l.kind = "NonTextTime" -> "raised"
      [] l.kind = "BadTimestamp" -> "None"
      [] OTHER -> "value"

\* Whether the loop body of process_file raises on the line: msg.get on a
\* value that is not a dict, or parse_time raising
LineRaises(l) == l.kind = "NotAnObject" \/ parse_time(l) = "raised"

\* Whether the loop body of process_file leaves the line with continue
LineSkipped(l) ==
    \/ l.kind = "MalformedJson"
    \/ l.kind = "NoCoordinate"
    \/ parse_time(l) = "None"

\* The read loop of process_file: ShipStaticData lines overwrite the vessel's
\* cache entry, PositionReport lines append a record that carries the static
\* data cached at that moment.  An exception ends the loop (raised).
RECURSIVE ReadLines(_, _, _)
ReadLines(lines, records, cache) ==
    IF lines = <<>> THEN [records |-> records, cache |-> cache, raised |-> FALSE]
    ELSE LET l == Head(lines) IN
         IF LineRaises(l)
         THEN [records |-> records, cache |-> cache, raised |-> TRUE]
         ELSE IF LineSkipped(l)
         THEN ReadLines(Tail(lines), records, cache)
         ELSE IF l.kind = "ShipStaticData"
         THEN ReadLines(Tail(lines), records,
                        [m \in DOMAIN cache \cup {l.mmsi} |->
                            IF m = l.mmsi THEN [length_m |-> LengthOfDimension(l.A, l.B)]
                            ELSE cache[m]])
         ELSE ReadLines(Tail(lines),
                        Append(records, [mmsi |-> l.mmsi, time |-> l.time, dist |-> l.dist,
                                         sog |-> l.sog,
                                         length_m |-> CachedLength(cache, l.mmsi)]),
                        cache)

\* Site slugs given to the collector and to the extractor as --site
PipelineSlugs == {"sunset-bay", "Sunset_Bay", "bush-point"}

\* Reports of a vessel that passes at 8500 m, then 7900 m
PipelineReports ==
    [kind : {"PositionReport"}, mmsi : {"366000001"},
     time : {0, 61500}, dist : {850000, 790000}, sog : {NoSog}]

\* to_utc_iso: strftime("%Y-%m-%dT%H:%M:%SZ") drops the sub-second part
to_utc_iso(t) == t \div 1000

\* round(dist_m, 1): centimetres to the nearest decimetre
Round1(d) == (d + 5) \div 10

\* group.sort_values("time"): insertion of each row after the rows whose key
\* is not larger (the order numpy's sort gives on short inputs)
RECURSIVE SortByTime(_)
InsertByTime(r, s) ==
    LET k == Cardinality({i \in 1..Len(s) : s[i].time <= r.time})
    IN SubSeq(s, 1, k) \o <<r>> \o SubSeq(s, k + 1, Len(s))
SortByTime(s) ==
    IF s = <<>> THEN <<>>
    ELSE InsertByTime(s[Len(s)], SortByTime(SubSeq(s, 1, Len(s) - 1)))

\* df.groupby("mmsi"): the rows of one vessel, in frame order
GroupOf(records, m) == SelectSeq(records, LAMBDA r : r.mmsi = m)

\* g[g["dist_m"] <= RADIUS_M]
InsideRadius(g) == SelectSeq(g, LAMBDA r : r.dist <= RADIUS_M * 100)

\* (mutation) the speed filter also drops the points whose speed is missing
SpeedFilterDropsMissing(g, minSog) == SelectSeq(g, LAMBDA r : r.sog >= minSog)

\* inside[(inside["sog"].isna()) | (inside["sog"] >= MIN_SOG_KT)]
SpeedFilter(g, minSog) == SelectSeq(g, LAMBDA r : r.sog = NoSog \/ r.sog >= minSog)

\* (mutation) the CPA row is taken to be the entry row
CpaRowIsEntry(inside) == inside[1]

\* inside.loc[inside["dist_m"].idxmin()]: first row attaining the minimum
CpaRow(inside) ==
    LET dmin == SeqMin([i \in 1..Len(inside) |-> inside[i].dist])
        k == SetMin({i \in 1..Len(inside) : inside[i].dist = dmin})
    IN inside[k]

\* The body of the per-vessel loop: <<>> when the group is skipped, else the row
TransitOfGroup(g, m, minSog, cpaMax, hq, site) ==
    LET inside0 == InsideRadius(g)
        inside == SpeedFilter(inside0, minSog)
    IN IF inside0 = <<>> THEN <<>>
       ELSE IF Len(inside) < MIN_POINTS THEN <<>>
       ELSE IF inside[Len(inside)].time - inside[1].time < MIN_DWELL_SEC * 1000 THEN <<>>
       ELSE LET cpa_row == CpaRow(inside) IN
            IF cpa_row.dist > cpaMax * 100 THEN <<>>
            ELSE << [ mmsi |-> m,
                      length_m |-> cpa_row.length_m,
                      t_entry |-> to_utc_iso(inside[1].time),
                      t_cpa |-> to_utc_iso(cpa_row.time),
                      t_exit |-> to_utc_iso(inside[Len(inside)].time),
                      cpa_distance_m |-> Round1(cpa_row.dist),
                      quality_tag |-> IF cpa_row.dist < hq * 100
                                      THEN "high-quality" ELSE "normal",
                      site_name |-> site ] >>

\* groupby iterates the vessels in ascending key order
RECURSIVE TransitsOver(_, _, _, _)
TransitsOver(ms, records, variant, site) ==
    IF ms = {} THEN <<>>
    ELSE LET m == CHOOSE x \in ms : \A y \in ms :
                      x = y \/ (x = "366000001" /\ y = "366000002")
             g == GroupOf(records, m)
             row == IF variant = "generic"
                    THEN TransitOfGroup(g, m, MIN_SOG_KT, CPA_MAX_M,
                                        HIGH_QUALITY_THRESHOLD, site)
                    ELSE TransitOfGroup(SortByTime(g), m, MIN_SOG_KT_LAB, CPA_MAX_M_LAB,
                                        HIGH_QUALITY_THRESHOLD_LAB, SITE_NAME)
         IN row \o TransitsOver(ms \ {m}, records, variant, site)

\* process_file: the rows written and the cache as the read loop left it
process_file(lines, cache, variant, site) ==
    LET rd == ReadLines(lines, <<>>, cache)
    IN [rows |-> TransitsOver({rd.records[i].mmsi : i \in 1..Len(rd.records)},
                              rd.records, variant, site),
        cache |-> rd.cache,
        raised |-> rd.raised]

\* The collector appends one more message line to the raw file
AppendLine(l) ==
    /\ rawMeta.written
    /\ extractor = "none"
    /\ Len(feedLines) < MaxLines
    /\ feedLines' = Append(feedLines, l)
    /\ UNCHANGED <<collectVars, staticCache, cacheReadable, extractor, transitsCsv,
                   matchVars, mergeVars, laterVars>>

\* main of ais_to_transits.py: the directory whose lower-cased name without
\* "_data" equals the lower-cased --site with "_" for "-"
BaseDirFound(arg) == Lower(stationDir) = DataDir(Lower(ReplaceDash(arg)))

\* site_name = meta.get("site", site)
SiteNameOf(meta, arg) == IF meta.written THEN meta.site ELSE arg

\* (mutation) the run starts from an empty dictionary whatever the file holds
load_static_cache_afresh(file, readable) == << >>

\* load_static_cache: the document of the file, or {} when reading it fails
load_static_cache(file, readable) == IF readable THEN file ELSE << >>

\* The output file after process_file: to_csv runs only when there are
\* transits, otherwise the file is left as it was
WrittenCsv(old, rows) == IF rows # <<>> THEN rows ELSE old

\* ais_to_transits.py --site arg: load the cache, process_file on the file
\* with the site name of its _meta line, save the cache.  An exception in
\* process_file ends main before the output and the cache are written.
ExtractGeneric(arg) ==
    /\ extractor = "none"
    /\ rawMeta.written
    /\ BaseDirFound(arg)
    /\ LET out == process_file(feedLines, load_static_cache(staticCache, cacheReadable),
                               "generic", SiteNameOf(rawMeta, arg))
       IN IF out.raised
          THEN /\ extractor' = "crashed"
               /\ UNCHANGED <<transitsCsv, staticCache, cacheReadable>>
          ELSE /\ extractor' = "generic"
               /\ transitsCsv' = WrittenCsv(transitsCsv, out.rows)
               /\ staticCache' = out.cache
               /\ cacheReadable' = TRUE
    /\ UNCHANGED <<collectVars, feedLines, matchVars, mergeVars, laterVars>>

\* ais_to_transits_orcasound_lab.py: process_dates over the file, which has to
\* be under Sites/Orcasound_Lab_data
ExtractLab ==
    /\ extractor = "none"
    /\ SameDir(stationDir, BASE_DIR_LAB)
    /\ LET out == process_file(feedLines, load_static_cache(staticCache, cacheReadable),
                               "lab", SITE_NAME)
       IN IF out.raised
          THEN /\ extractor' = "crashed"
               /\ UNCHANGED <<transitsCsv, staticCache, cacheReadable>>
          ELSE /\ extractor' = "lab"
               /\ transitsCsv' = WrittenCsv(transitsCsv, out.rows)
               /\ staticCache' = out.cache
               /\ cacheReadable' = TRUE
    /\ UNCHANGED <<collectVars, feedLines, matchVars, mergeVars, laterVars>>

\* The extractor is started again over the same raw file (python3
\* ais_to_transits.py ... once more)
RunAgain ==
    /\ extractor # "none"
    /\ extractor' = "none"
    /\ UNCHANGED <<collectVars, feedLines, staticCache, cacheReadable, transitsCsv,
                   matchVars, mergeVars, laterVars>>

\* Between two runs static_cache.json stops being a JSON document (a stray
\* byte, a cut-off write): json.load raises on it from then on
DamageCacheFile ==
    /\ extractor = "none"
    /\ cacheReadable
    /\ staticCache # << >>
    /\ cacheReadable' = FALSE
    /\ UNCHANGED <<collectVars, feedLines, staticCache, extractor, transitsCsv,
                   matchVars, mergeVars, laterVars>>

----------------------------------------------------------------------------
(* Window Matcher                                                          *)

\* Bounds of the explored input
MaxIndexRows == 1
MaxTransits == 2

\* match_all_transits_to_ts.py constants.  MIN_DAY_HOURS = 23.5 and
\* MAX_DAY_HOURS = 24.5 are kept in half hours.
SEARCH_WINDOW == 180
MIN_DAY_HALF_HOURS == 47
MAX_DAY_HALF_HOURS == 49

Days == {"previous", "target", "next-day"}

NoFile == [exists |-> FALSE, rows |-> <<>>]
NoFrame == [ok |-> FALSE, rows |-> <<>>]

SessionA == "rpi_1700000000"
SessionB == "rpi_1700090000"
SessionBefore(x, y) == x = SessionA /\ y = SessionB

Seg(session, num, start, end) ==
    [file |-> [session |-> session, num |-> num], start |-> start, end |-> end]

\* Index rows around the CPA time 1000 s, half-window 180 s; two of them carry
\* the same identifier
WindowIndexRows ==
    { Seg(SessionA, 5, 1150, 1190), Seg(SessionA, 6, 1200, 1400),
      Seg(SessionB, 1, 1180, 1190), Seg(SessionA, 4, 810, 820),
      Seg(SessionA, 5, 800, 819), Seg(SessionB, 2, 1181, 1191) }

\* Index rows whose span from 0 s is 23.0, 23.5, 24.0, 24.5 and 25.0 hours
DstIndexRows ==
    { Seg(SessionA, 0, 0, 10), Seg(SessionB, 8279, 82790, 82800),
      Seg(SessionB, 8459, 84590, 84600), Seg(SessionB, 8639, 86390, 86400),
      Seg(SessionB, 8639, 88190, 88200), Seg(SessionB, 8999, 89990, 90000) }

PipelineIndexRows == {Seg(SessionA, 0, 0, 10)}

TransitAt(m, t) ==
    [mmsi |-> m, length_m |-> NoLength, t_entry |-> t - 30, t_cpa |-> t, t_exit |-> t + 30,
     cpa_distance_m |-> 10000, quality_tag |-> "normal", site_name |-> "orcasound-lab"]

WindowTransits == {TransitAt("366000001", 1000), TransitAt("366000002", 3000)}
DstTransits == {TransitAt("366000001", 1000)}

\* pd.read_csv(fpath, names=["file", "start", "end"], ...): the frame, or an
\* exception (EmptyDataError) on a file without rows
ReadCsvFails(f) == f.rows = <<>>

\* (mutation) rows with an identifier already seen are kept
DropDuplicateFilesKeepAll(rows) == rows

\* drop_duplicates(subset=["file"]): keep the first row of each identifier
RECURSIVE DropDuplicateFiles(_)
DropDuplicateFiles(rows) ==
    IF rows = <<>> THEN <<>>
    ELSE LET init == SubSeq(rows, 1, Len(rows) - 1)
             last == rows[Len(rows)]
         IN IF \E i \in 1..Len(init) : init[i].file = last.file
            THEN DropDuplicateFiles(init)
            ELSE Append(DropDuplicateFiles(init), last)

\* sort_values("start")
RECURSIVE SortByStart(_)
InsertByStart(r, s) ==
    LET k == Cardinality({i \in 1..Len(s) : s[i].start <= r.start})
    IN SubSeq(s, 1, k) \o <<r>> \o SubSeq(s, k + 1, Len(s))
SortByStart(s) ==
    IF s = <<>> THEN <<>>
    ELSE InsertByStart(s[Len(s)], SortByStart(SubSeq(s, 1, Len(s) - 1)))

\* (ts_df["end"].max() - ts_df["start"].min()).total_seconds()
CoverageSeconds(rows) ==
    SetMax({rows[i].end : i \in 1..Len(rows)}) - SetMin({rows[i].start : i \in 1..Len(rows)})

\* (mutation) a day of exactly MIN_DAY_HOURS counts as short
IsShortDayInclusive(coverage) == coverage <= MIN_DAY_HALF_HOURS * 1800

\* coverage_hours < MIN_DAY_HOURS
IsShortDay(coverage) == coverage < MIN_DAY_HALF_HOURS * 1800

\* coverage_hours > MAX_DAY_HOURS
IsLongDay(coverage) == coverage > MAX_DAY_HALF_HOURS * 1800

\* The loop over (previous, target): the readable files, in that order
RequestedFrames(files) ==
    LET one(d) == IF files[d].exists /\ ~ReadCsvFails(files[d]) THEN <<d>> ELSE <<>>
    IN one("previous") \o one("target")

RECURSIVE ConcatFrames(_, _)
ConcatFrames(files, labels) ==
    IF labels = <<>> THEN <<>>
    ELSE files[Head(labels)].rows \o ConcatFrames(files, Tail(labels))

load_timestamp_dataframe(files) ==
    LET used == RequestedFrames(files)
        reads0 == {d \in {"previous", "target"} : files[d].exists}
        ts_df == SortByStart(DropDuplicateFiles(ConcatFrames(files, used)))
    IN IF used = <<>>
       THEN [df |-> NoFrame, used |-> used, reads |-> reads0, note |-> "none"]
       ELSE IF IsShortDay(CoverageSeconds(ts_df))
       THEN IF files["next-day"].exists
            THEN IF ReadCsvFails(files["next-day"])
                 THEN [df |-> [ok |-> TRUE, rows |-> ts_df], used |-> used,
                       reads |-> reads0 \cup {"next-day"}, note |-> "short-included"]
                 ELSE [df |-> [ok |-> TRUE,
                               rows |-> SortByStart(DropDuplicateFiles(
                                            ts_df \o files["next-day"].rows))],
                       used |-> Append(used, "next-day"),
                       reads |-> reads0 \cup {"next-day"}, note |-> "short-included"]
            ELSE [df |-> [ok |-> TRUE, rows |-> ts_df], used |-> used,
                  reads |-> reads0, note |-> "short-missing"]
       ELSE IF IsLongDay(CoverageSeconds(ts_df))
       THEN [df |-> [ok |-> TRUE, rows |-> ts_df], used |-> used,
             reads |-> reads0, note |-> "fallback"]
       ELSE [df |-> [ok |-> TRUE, rows |-> ts_df], used |-> used,
             reads |-> reads0, note |-> "none"]

\* (mutation) the window bounds are excluded
OverlapsStrict(seg, t_cpa, window) ==
    seg.end > t_cpa - window /\ seg.start < t_cpa + window

\* (ts_df["end"] >= t_cpa - window) & (ts_df["start"] <= t_cpa + window)
Overlaps(seg, t_cpa, window) ==
    seg.end >= t_cpa - window /\ seg.start <= t_cpa + window

\* session_map and the ranges built from it: one [session, low, high] per
\* session, sessions in ascending order
RECURSIVE RangesOver(_, _)
RangesOver(sessions, files) ==
    IF sessions = {} THEN <<>>
    ELSE LET s == CHOOSE x \in sessions : \A y \in sessions : x = y \/ SessionBefore(x, y)
             nums == {files[i].num : i \in {j \in 1..Len(files) : files[j].session = s}}
         IN <<[session |-> s, low |-> SetMin(nums), high |-> SetMax(nums)]>>
            \o RangesOver(sessions \ {s}, files)

\* The body of the loop over the transit rows
WindowRow(row, ts_df, window) ==
    LET subset == SelectSeq(ts_df, LAMBDA seg : Overlaps(seg, row.t_cpa, window))
        files == [i \in 1..Len(subset) |-> subset[i].file]
    IN IF subset = <<>>
       THEN DictUpdate(row, [match_status |-> "no_segments",
                             segment_count |-> 0, segment_range |-> <<>>])
       ELSE DictUpdate(row, [match_status |-> "window_found",
                             segment_count |-> Len(files),
                             segment_range |->
                                 RangesOver({files[i].session : i \in 1..Len(files)}, files)])

\* (mutation) transits without an overlapping segment are left out
WindowRowsOmitUnmatched(rows, ts_df, window) ==
    LET all == [i \in 1..Len(rows) |-> WindowRow(rows[i], ts_df, window)]
    IN SelectSeq(all, LAMBDA r : r.match_status = "window_found")

\* for _, row in df.iterrows(): ... output_rows.append(out)
WindowRows(rows, ts_df, window) ==
    [i \in 1..Len(rows) |-> WindowRow(rows[i], ts_df, window)]

\* An index file of the station gains a row (the file is created if absent)
WriteIndexRow(d, r) ==
    /\ matcher = "none"
    /\ Len(tsFiles[d].rows) < MaxIndexRows
    /\ tsFiles' = [tsFiles EXCEPT ![d] = [exists |-> TRUE, rows |-> Append(@.rows, r)]]
    /\ UNCHANGED <<tsLoaded, usedFiles, tsReads, dstNote, matcher, windowedCsv,
                   collectVars, extractVars, mergeVars, laterVars>>

\* An index file exists but holds no row
TouchIndexFile(d) ==
    /\ matcher = "none"
    /\ ~tsFiles[d].exists
    /\ tsFiles' = [tsFiles EXCEPT ![d] = [exists |-> TRUE, rows |-> <<>>]]
    /\ UNCHANGED <<tsLoaded, usedFiles, tsReads, dstNote, matcher, windowedCsv,
                   collectVars, extractVars, mergeVars, laterVars>>

\* The extractor's output for the day, as the matcher finds it: one more row
TransitRowGiven(row) ==
    /\ matcher = "none"
    /\ Len(transitsCsv) < MaxTransits
    /\ transitsCsv' = Append(transitsCsv, row)
    /\ UNCHANGED <<collectVars, feedLines, staticCache, cacheReadable, extractor,
                   matchVars, mergeVars, laterVars>>

\* process_sites for one station and day
ProcessSites ==
    /\ matcher = "none"
    /\ IF ~SiteDirFound \/ transitsCsv = <<>>
       THEN \* no site directory or no *_transits_filtered.csv: the site is
            \* skipped before any load
            /\ matcher' = "skipped"
            /\ UNCHANGED <<tsLoaded, usedFiles, tsReads, dstNote, windowedCsv>>
       ELSE LET ld == load_timestamp_dataframe(tsFiles) IN
            /\ tsLoaded' = ld.df
            /\ usedFiles' = ld.used
            /\ tsReads' = ld.reads
            /\ dstNote' = ld.note
            /\ IF ~ld.df.ok
               THEN matcher' = "skipped" /\ UNCHANGED windowedCsv
               ELSE /\ matcher' = "done"
                    /\ windowedCsv' = WindowRows(transitsCsv, ld.df.rows, SEARCH_WINDOW)
    /\ UNCHANGED <<tsFiles, collectVars, extractVars, mergeVars, laterVars>>

----------------------------------------------------------------------------
(* Relevance Filter & Deduplicator                                         *)

\* Bounds of the explored input
MaxWindowed == 3

\* merge_and_dedup.py distance rules (metres)
DEFAULT_CPA_MAX_M == 5000
LARGE_SHIP_CPA_MAX_M == 8000
SMALL_SHIP_CPA_MAX_M == 3000

NoCpa == -1          \* cpa_distance_m absent (NaN)

\* SITE_RANGE_OVERRIDES.get(site, {}) followed by the three limits.get(...)
LimitsOf(site) ==
    IF site \in {"Sunset_Bay", "Sunset_Bay_data"}
    THEN [default |-> 7500, large |-> 9000, small |-> 5000]
    ELSE [default |-> DEFAULT_CPA_MAX_M, large |-> LARGE_SHIP_CPA_MAX_M,
          small |-> SMALL_SHIP_CPA_MAX_M]

\* (mutation) a vessel of exactly 150 m counts as large, one of 50 m as small
CeilingForInclusive(length, limits) ==
    IF length # NoLength /\ length >= 150 THEN limits.large
    ELSE IF length # NoLength /\ length <= 50 THEN limits.small
    ELSE limits.default

\* The ceiling the if-chain compares cpa with: large above 150 m, small below
\* 50 m, default otherwise, also when the length is missing
CeilingFor(length, limits) ==
    IF length # NoLength /\ length > 150 THEN limits.large
    ELSE IF length # NoLength /\ length < 50 THEN limits.small
    ELSE limits.default

is_acoustically_relevant(row) ==
    IF row.cpa_distance_m = NoCpa THEN FALSE
    ELSE row.cpa_distance_m <= CeilingFor(row.length_m, LimitsOf(row.site_name)) * 10

\* sort_values("cpa_distance_m")
RECURSIVE SortByCpa(_)
InsertByCpa(r, s) ==
    LET k == Cardinality({i \in 1..Len(s) : s[i].cpa_distance_m <= r.cpa_distance_m})
    IN SubSeq(s, 1, k) \o <<r>> \o SubSeq(s, k + 1, Len(s))
SortByCpa(s) ==
    IF s = <<>> THEN <<>>
    ELSE InsertByCpa(s[Len(s)], SortByCpa(SubSeq(s, 1, Len(s) - 1)))

\* (mutation) the last row of each MMSI is kept
RECURSIVE DropDuplicateMmsiKeepLast(_)
DropDuplicateMmsiKeepLast(rows) ==
    IF rows = <<>> THEN <<>>
    ELSE IF \E i \in 2..Len(rows) : rows[i].mmsi = rows[1].mmsi
         THEN DropDuplicateMmsiKeepLast(Tail(rows))
         ELSE <<rows[1]>> \o DropDuplicateMmsiKeepLast(Tail(rows))

\* drop_duplicates(subset=["mmsi"], keep="first")
RECURSIVE DropDuplicateMmsi(_)
DropDuplicateMmsi(rows) ==
    IF rows = <<>> THEN <<>>
    ELSE LET init == SubSeq(rows, 1, Len(rows) - 1)
             last == rows[Len(rows)]
         IN IF \E i \in 1..Len(init) : init[i].mmsi = last.mmsi
            THEN DropDuplicateMmsi(init)
            ELSE Append(DropDuplicateMmsi(init), last)

\* (mutation) the rows are de-duplicated in file order, without the sort
MergeRowsUnsorted(rows) ==
    DropDuplicateMmsi(SelectSeq(rows, is_acoustically_relevant))

\* The filter, sort and de-duplication of process_day_folder
MergeRows(rows) ==
    DropDuplicateMmsi(SortByCpa(SelectSeq(rows, is_acoustically_relevant)))

\* A row of a *_windowed.csv file
WindowedRow(m, cpa, length, site, status) ==
    [mmsi |-> m, length_m |-> length, t_entry |-> 970, t_cpa |-> 1000, t_exit |-> 1030,
     cpa_distance_m |-> cpa,
     quality_tag |-> IF cpa # NoCpa /\ cpa < HIGH_QUALITY_THRESHOLD * 10
                     THEN "high-quality" ELSE "normal",
     site_name |-> site, match_status |-> status,
     segment_count |-> IF status = "window_found" THEN 1 ELSE 0,
     segment_range |-> IF status = "window_found"
                       THEN <<[session |-> SessionA, low |-> 5, high |-> 5]>> ELSE <<>>]

\* Windowed rows of a default station: 900 m, 1200 m, 3000 m and 6000 m
MergeInputRows ==
    {WindowedRow(m, cpa, len, "orcasound-lab", st) :
        m \in Vessels, cpa \in {9000, 12000, 30000, 60000}, len \in {NoLength, 30},
        st \in {"window_found"}}

\* Rows for is_acoustically_relevant: every ceiling, each side of it
RelevanceRows ==
    {WindowedRow("366000001", cpa, len, site, "window_found") :
        cpa \in {NoCpa, 30000, 31000, 40000, 50000, 50001, 75000, 75001,
                 79000, 80000, 80001, 85000, 90000, 90001},
        len \in {NoLength, 30, 49, 50, 100, 150, 151, 200},
        site \in {"orcasound-lab", "Sunset_Bay", "Sunset_Bay_data", "sunset-bay"}}

\* Another source file of the day folder holds one more windowed row
SiblingRowGiven(row) ==
    /\ merger = "none"
    /\ Len(siblingWindowed) < MaxWindowed
    /\ siblingWindowed' = Append(siblingWindowed, row)
    /\ UNCHANGED <<merger, mergedCsv, relRow, relResult, collectVars, extractVars, matchVars,
                   laterVars>>

\* process_site and process_day_folder for the station's day folder
ProcessDayFolder ==
    /\ merger = "none"
    /\ IF ~SiteDirFound \/ (siblingWindowed = <<>> /\ windowedCsv = <<>>)
       THEN merger' = "skipped" /\ UNCHANGED mergedCsv
       ELSE /\ merger' = "done"
            /\ mergedCsv' = MergeRows(siblingWindowed \o windowedCsv)
    /\ UNCHANGED <<siblingWindowed, relRow, relResult, collectVars, extractVars, matchVars,
                   laterVars>>

\* df.apply(is_acoustically_relevant, axis=1) on one row
EvaluateRelevance ==
    /\ relResult = "unset"
    /\ relResult' = IF is_acoustically_relevant(relRow) THEN "relevant" ELSE "dropped"
    /\ UNCHANGED <<siblingWindowed, merger, mergedCsv, relRow,
                   collectVars, extractVars, matchVars, laterVars>>

----------------------------------------------------------------------------
(* Segment Selector & Classifier: the classifier                           *)

\* lowfreq_ratio and delta_L are in hundredths (0.6 is 60, -2.22 dB is -222)
NanRatio == -1          \* ratio is NaN
NoDelta == -100000      \* delta_L is None
NanDelta == -100001     \* delta_L is NaN: delta_L > x is false for every threshold x

\* Order none < low < medium < high
Rank(conf) ==
    CASE conf = "none" -> 0
      [] conf = "low" -> 1
      [] conf = "medium" -> 2
      [] conf = "high" -> 3

\* (mutation) the Sunset Bay table asks more than the default one for "high"
SunsetBayConfidenceStrictHigh(ratio, delta_L) ==
    IF ratio = NanRatio THEN "none"
    ELSE IF ratio > 600 \/ (delta_L # NoDelta /\ delta_L > 700) THEN "high"
    ELSE IF ratio > 20 \/ (delta_L # NoDelta /\ delta_L > -200) THEN "medium"
    ELSE IF ratio > 5 \/ (delta_L # NoDelta /\ delta_L > -800) THEN "low"
    ELSE "none"

\* classify_confidence, the branch of site_name == "Sunset_Bay"
SunsetBayConfidence(ratio, delta_L) ==
    IF ratio = NanRatio THEN "none"
    ELSE IF ratio > 200 \/ (delta_L # NoDelta /\ delta_L > 400) THEN "high"
    ELSE IF ratio > 20 \/ (delta_L # NoDelta /\ delta_L > -200) THEN "medium"
    ELSE IF ratio > 5 \/ (delta_L # NoDelta /\ delta_L > -800) THEN "low"
    ELSE "none"

\* (mutation) the third branch of the default table returns "low"
DefaultConfidenceWithLow(ratio, delta_L) ==
    IF ratio = NanRatio THEN "none"
    ELSE IF ratio > 500 \/ (delta_L # NoDelta /\ delta_L > 600) THEN "high"
    ELSE IF ratio > 50 \/ (delta_L # NoDelta /\ delta_L > -100) THEN "medium"
    ELSE IF ratio >= 10 \/ (delta_L # NoDelta /\ delta_L > -600) THEN "low"
    ELSE "none"

\* classify_confidence, the branch of the other sites: its third and fourth
\* branches both return "none"
DefaultConfidence(ratio, delta_L) ==
    IF ratio = NanRatio THEN "none"
    ELSE IF ratio > 500 \/ (delta_L # NoDelta /\ delta_L > 600) THEN "high"
    ELSE IF ratio > 50 \/ (delta_L # NoDelta /\ delta_L > -100) THEN "medium"
    ELSE IF ratio >= 10 \/ (delta_L # NoDelta /\ delta_L > -600) THEN "none"
    ELSE "none"

\* classify_confidence(ratio, entropy, delta_L, site_name); entropy is not used
classify_confidence(ratio, delta_L, site_name) ==
    IF site_name = "Sunset_Bay"
    THEN SunsetBayConfidence(ratio, delta_L)
    ELSE DefaultConfidence(ratio, delta_L)

\* Site names process_day derives from the directories main builds
SelectorSites == {"Sunset_Bay", "Bush_Point", "Orcasound_Lab", "Port_Townsend"}

\* Ratios and level differences around every threshold of the two tables,
\* with 10*log10 of 6.0, 0.6 and 0.2 (7.78, -2.22, -6.99)
ClassifyRatios == {NanRatio, 0, 5, 6, 10, 11, 20, 21, 50, 51, 60, 200, 201, 500, 501, 600}
ClassifyDeltas == {NoDelta, -900, -800, -799, -699, -600, -599, -222, -200, -199,
                   -100, -99, 400, 401, 600, 601, 778}

\* One call of classify_confidence
Classify ==
    /\ clsResult = "unset"
    /\ clsResult' = classify_confidence(clsInput.ratio, clsInput.delta_L, clsInput.site_name)
    /\ UNCHANGED <<clsInput, collectVars, extractVars, matchVars, mergeVars, selectVars,
                   moreVars>>

----------------------------------------------------------------------------
(* Segment Selector & Classifier: acquisition and selection                *)

\* Bounds of the explored input
SelectLastSeg == 51     \* last sequence number of the first session's range
MaxResponses == 3       \* URLs of the bucket that answer something else than 404

FolderA == "1763366711"
FolderB == "1763452821"
RangeA == [folder |-> FolderA, start |-> 50, end |-> SelectLastSeg]
RangeB == [folder |-> FolderB, start |-> 0, end |-> 0]

\* What parse_segment_ranges gives for the segment_range of the row: two
\* sessions, one session, or nothing it can parse
SelectorRanges == {<<RangeA, RangeB>>, <<RangeA>>, <<>>}

SelectorMmsi == "366000001"

\* f"live{seg_int}.ts" and f"live{seg_int:03d}.ts": the number and the zeros
\* written before it
LiveName(seg_int, padded) ==
    [num |-> seg_int,
     zeros |-> IF ~padded THEN 0
               ELSE IF seg_int < 10 THEN 2
               ELSE IF seg_int < 100 THEN 1
               ELSE 0]

Url(folder, seg_int, padded) == [folder |-> folder, name |-> LiveName(seg_int, padded)]

SegKey(folder, seg_int) == [folder |-> folder, seg |-> seg_int]

AllSegKeys ==
    {SegKey(FolderA, n) : n \in RangeA.start..RangeA.end}
    \cup {SegKey(FolderB, n) : n \in RangeB.start..RangeB.end}

AllUrls == {Url(k.folder, k.seg, p) : k \in AllSegKeys, p \in BOOLEAN}

\* (mutation) the zero-padded name is asked first
download_ts_padded_first(folder, seg_int) ==
    LET first == Url(folder, seg_int, TRUE)
        second == Url(folder, seg_int, FALSE)
    IN IF s3[first] = "ok"
       THEN [fetched |-> TRUE, requests |-> <<[url |-> first, resp |-> s3[first]]>>]
       ELSE [fetched |-> s3[second] = "ok",
             requests |-> <<[url |-> first, resp |-> s3[first]],
                            [url |-> second, resp |-> s3[second]]>>]

\* download_ts: one GET on url_plain, then, unless that one was saved, one
\* GET on url_padded; a 404 and an exception both go on to the next URL
download_ts(folder, seg_int) ==
    LET url_plain == Url(folder, seg_int, FALSE)
        url_padded == Url(folder, seg_int, TRUE)
    IN IF s3[url_plain] = "ok"
       THEN [fetched |-> TRUE, requests |-> <<[url |-> url_plain, resp |-> s3[url_plain]]>>]
       ELSE [fetched |-> s3[url_padded] = "ok",
             requests |-> <<[url |-> url_plain, resp |-> s3[url_plain]],
                            [url |-> url_padded, resp |-> s3[url_padded]]>>]

\* for seg_int in range(a, b + 1): download_ts, and wav_files.append on success
RECURSIVE DownloadRange(_, _, _)
DownloadRange(folder, a, b) ==
    IF a > b THEN [wavs |-> <<>>, log |-> <<>>]
    ELSE LET d == download_ts(folder, a)
             rest == DownloadRange(folder, a + 1, b)
         IN [wavs |-> (IF d.fetched THEN <<SegKey(folder, a)>> ELSE <<>>) \o rest.wavs,
             log |-> d.requests \o rest.log]

\* for r in ranges: the loop over the ranges of the row
RECURSIVE DownloadAll(_)
DownloadAll(ranges) ==
    IF ranges = <<>> THEN [wavs |-> <<>>, log |-> <<>>]
    ELSE LET r == Head(ranges)
             first == DownloadRange(r.folder, r.start, r.end)
             rest == DownloadAll(Tail(ranges))
         IN [wavs |-> first.wavs \o rest.wavs, log |-> first.log \o rest.log]

\* folder_to_range_idx: the last index of the folder in ranges (0 for None)
RangeIdx(ranges, folder) ==
    LET idx == {i \in 1..Len(ranges) : ranges[i].folder = folder}
    IN IF idx = {} THEN 0 ELSE SetMax(idx)

\* neighbor_after: <<>> for None, else the key in a one-element sequence
neighbor_after(ranges, candidates, folder, seg) ==
    IF SegKey(folder, seg + 1) \in candidates THEN <<SegKey(folder, seg + 1)>>
    ELSE LET ridx == RangeIdx(ranges, folder)
         IN IF /\ ridx # 0
               /\ seg >= ranges[ridx].end
               /\ ridx + 1 <= Len(ranges)
               /\ SegKey(ranges[ridx + 1].folder, ranges[ridx + 1].start) \in candidates
            THEN <<SegKey(ranges[ridx + 1].folder, ranges[ridx + 1].start)>>
            ELSE <<>>

\* neighbor_before
neighbor_before(ranges, candidates, folder, seg) ==
    IF SegKey(folder, seg - 1) \in candidates THEN <<SegKey(folder, seg - 1)>>
    ELSE LET ridx == RangeIdx(ranges, folder)
         IN IF /\ ridx # 0
               /\ seg <= ranges[ridx].start
               /\ ridx - 1 >= 1
               /\ SegKey(ranges[ridx - 1].folder, ranges[ridx - 1].end) \in candidates
            THEN <<SegKey(ranges[ridx - 1].folder, ranges[ridx - 1].end)>>
            ELSE <<>>

\* (mutation) the predecessor is tried before the successor
WavsToMergeBeforeFirst(ranges, candidates, loud) ==
    LET before == neighbor_before(ranges, candidates, loud.folder, loud.seg)
        after == neighbor_after(ranges, candidates, loud.folder, loud.seg)
    IN IF before # <<>> THEN before \o <<loud>>
       ELSE IF after # <<>> THEN <<loud>> \o after
       ELSE <<loud>>

\* wavs_to_merge: the loudest segment, with the neighbour after it appended
\* or else the neighbour before it inserted in front
WavsToMerge(ranges, candidates, loud) ==
    LET after == neighbor_after(ranges, candidates, loud.folder, loud.seg)
        before == neighbor_before(ranges, candidates, loud.folder, loud.seg)
    IN IF after # <<>> THEN <<loud>> \o after
       ELSE IF before # <<>> THEN before \o <<loud>>
       ELSE <<loud>>

\* out_name: f"{mmsi}_{shipname}_live{loud_seg_int:03d}_30s.wav"
OutName(mmsi, loud) == [mmsi |-> mmsi, live |-> LiveName(loud.seg, TRUE)]

\* What out_path holds after ffmpeg_concat_wavs and the fall-back copy of
\* the loudest file
SavedClip(merge, loud, concatOk) == IF Len(merge) = 2 /\ ~concatOk THEN <<loud>> ELSE merge

\* (mutation) the clip of a candidate classified "none" is left in place
ClipsAfterKeepFiltered(clips, out, saved, conf) ==
    [o \in DOMAIN clips \cup {out} |-> IF o = out THEN saved ELSE clips[o]]

\* The clip files once the candidate is classified: out_path is written, and
\* removed again when the confidence is "none"
ClipsAfter(clips, out, saved, conf) ==
    IF conf = "none"
    THEN [o \in DOMAIN clips \ {out} |-> clips[o]]
    ELSE [o \in DOMAIN clips \cup {out} |-> IF o = out THEN saved ELSE clips[o]]

\* The row process_day appends to summary
SummaryRow(mmsi, site, wavs, loud, merge, conf) ==
    [mmsi |-> mmsi, site_name |-> site, aws_folder |-> loud.folder,
     loudest_seg |-> LiveName(loud.seg, TRUE),
     merged_segs |-> IF Len(merge) = 2 THEN 2 ELSE 1,
     seg_start |-> SetMin({wavs[i].seg : i \in 1..Len(wavs)}),
     seg_end |-> SetMax({wavs[i].seg : i \in 1..Len(wavs)}),
     acoustic_confidence |-> conf,
     output_audio |-> OutName(mmsi, loud)]

\* loudness_summary_{date}.csv after process_day: to_csv runs only when
\* summary is not empty
WrittenSummary(old, rows) == IF rows # <<>> THEN rows ELSE old

NoCandidate == [center |-> SegKey("", 0), merge |-> <<>>, saved |-> <<>>,
                ratio |-> NanRatio, delta_L |-> NoDelta, conf |-> "unset",
                out |-> [mmsi |-> "", live |-> LiveName(0, TRUE)]]

\* (ratio, delta_L) measured on the saved clip: NaN when it cannot be read or
\* is silent, else a ratio with delta_L = 10*log10(ratio)
SelectorMetrics ==
    {[ratio |-> NanRatio, delta_L |-> NanDelta],
     [ratio |-> 600, delta_L |-> 778],
     [ratio |-> 60, delta_L |-> -222],
     [ratio |-> 8, delta_L |-> -1097],
     [ratio |-> 2, delta_L |-> -1699]}

\* A segment appears in the bucket under one of its names, stops being
\* served, or the bucket answers a request for it with an error or a timeout
SetResponse(url, resp) ==
    /\ selector = "none"
    /\ s3[url] # resp
    /\ Cardinality({u \in AllUrls : u # url /\ s3[u] # "404"}) +
          (IF resp = "404" THEN 0 ELSE 1) <= MaxResponses
    /\ s3' = [s3 EXCEPT ![url] = resp]
    /\ UNCHANGED <<selSite, selRanges, selector, fetchLog, wavFiles, candidate, summary,
                   summaryCsv, clipFiles, classifyVars,
                   collectVars, extractVars, matchVars, mergeVars, moreVars>>

\* The body of process_day for one row once the downloads are over (wavs is
\* wav_files, log the requests made).  The environment decides which
\* downloaded segment is the loudest, whether the ffmpeg conversion of the
\* first download left a WAV file (without one its RMS is NaN, max() keeps
\* it as the loudest and shutil.copy2 raises), whether the ffmpeg concat
\* works, and what is measured on the saved clip.
SelectFrom(wavs, log, loudIdx, firstWavMissing, concatOk, metrics) ==
    /\ fetchLog' = log
    /\ wavFiles' = wavs
    /\ IF wavs = <<>>
       THEN /\ loudIdx = 1 /\ ~firstWavMissing /\ concatOk
            /\ metrics.ratio = NanRatio
            /\ selector' = "done"
            /\ candidate' = NoCandidate
            /\ summary' = <<>>
            /\ UNCHANGED <<summaryCsv, clipFiles>>
       ELSE /\ loudIdx \in 1..Len(wavs)
            /\ firstWavMissing => loudIdx = 1
            /\ LET loud == wavs[loudIdx]
                   candidates == {wavs[i] : i \in 1..Len(wavs)}
                   merge == WavsToMerge(selRanges, candidates, loud)
                   saved == SavedClip(merge, loud, concatOk)
                   conf == classify_confidence(metrics.ratio, metrics.delta_L, selSite)
                   out == OutName(SelectorMmsi, loud)
               IN IF firstWavMissing
                  THEN /\ concatOk /\ metrics.ratio = NanRatio
                       /\ selector' = "crashed"
                       /\ candidate' = [NoCandidate EXCEPT !.center = loud,
                                                            !.merge = merge, !.out = out]
                       /\ summary' = <<>>
                       /\ UNCHANGED <<summaryCsv, clipFiles>>
                  ELSE /\ Len(merge) = 1 => concatOk
                       /\ selector' = "done"
                       /\ candidate' = [center |-> loud, merge |-> merge, saved |-> saved,
                                        ratio |-> metrics.ratio,
                                        delta_L |-> metrics.delta_L,
                                        conf |-> conf, out |-> out]
                       /\ clipFiles' = ClipsAfter(clipFiles, out, saved, conf)
                       /\ summary' = IF conf = "none" THEN <<>>
                                     ELSE <<SummaryRow(SelectorMmsi, selSite, wavs, loud,
                                                       merge, conf)>>
                       /\ summaryCsv' = WrittenSummary(summaryCsv, summary')

\* process_day over a windowed_merged.csv of one row
ProcessDay(loudIdx, firstWavMissing, concatOk, metrics) ==
    /\ selector = "none"
    /\ LET dl == DownloadAll(selRanges)
       IN SelectFrom(dl.wavs, dl.log, loudIdx, firstWavMissing, concatOk, metrics)
    /\ UNCHANGED <<s3, selSite, selRanges, classifyVars,
                   collectVars, extractVars, matchVars, mergeVars, moreVars>>

----------------------------------------------------------------------------
(* Live collector: main and collect_once of scripts/collect/ais_collect.py *)
(* and scripts/collect/ais_collect_sunset_bay.py                           *)

\* Bounds of the explored runs
MaxClock == 30
MaxMsgs == 3

\* DURATION_SECS as resolve_duration gives it for AIS_DURATION_SECS=10 (the
\* default is 3600), and the argument of asyncio.sleep in main
DURATION_SECS == 10
RETRY_SLEEP_SECS == 5
ClockStep == 5

NoTime == -1

\* The lines of the raw file
MetaLine == [kind |-> "_meta", seq |-> 0]
MessageLine(n) == [kind |-> "message", seq |-> n]

\* open(out_path, "w") and, in ais_collect.py, the _meta line written first
OpenedFile(variant) == IF variant = "generic" THEN <<MetaLine>> ELSE <<>>

\* (mutation) every failed collect_once call is followed by another one
RetryAfterEveryError(attempt) == TRUE

\* main wraps only its first collect_once call in try/except
RetryAfterError(attempt) == attempt = 1

\* await asyncio.sleep(5) returns
SleepOver(clock, wake) == clock >= wake

otherThanCollector == <<collectVars, extractVars, matchVars, mergeVars,
                        selectVars, classifyVars, raceVars, readVars>>

\* A collect_once call ends with an exception at the present time: main
\* prints it and sleeps when it was the first call, and ends with it otherwise
Raise(attempt) ==
    /\ colRaisedAt' = Append(colRaisedAt, colClock)
    /\ IF RetryAfterError(attempt)
       THEN colPc' = "sleeping" /\ colWake' = colClock + RETRY_SLEEP_SECS
       ELSE colPc' = "failed" /\ UNCHANGED colWake

\* collect_once is called and websockets.connect succeeds: the deadline is
\* set, the subscription sent and out_path opened for writing
ConnectOk ==
    /\ colPc \in {"start", "retry"}
    /\ colAttempt' = colAttempt + 1
    /\ colDeadline' = colClock + DURATION_SECS
    /\ colFile' = OpenedFile(colVariant)
    /\ colPc' = "reading"
    /\ UNCHANGED <<colVariant, colPhase, colRaisedAt, colClock, colWake, colFeedSeq,
                   otherThanCollector>>

\* collect_once is called and websockets.connect (or the send of the
\* subscription) raises: out_path is not opened
ConnectFails ==
    /\ colPc \in {"start", "retry"}
    /\ colAttempt' = colAttempt + 1
    /\ colDeadline' = colClock + DURATION_SECS
    /\ Raise(colAttempt + 1)
    /\ UNCHANGED <<colVariant, colPhase, colClock, colFile, colFeedSeq, otherThanCollector>>

\* The feed delivers a message: the loop body leaves the loop when the
\* deadline has passed and writes the message otherwise
Receive ==
    /\ colPc = "reading"
    /\ colFeedSeq < MaxMsgs
    /\ colFeedSeq' = colFeedSeq + 1
    /\ IF colClock >= colDeadline
       THEN colPc' = "done" /\ UNCHANGED colFile
       ELSE colFile' = Append(colFile, MessageLine(colFeedSeq + 1)) /\ UNCHANGED colPc
    /\ UNCHANGED <<colVariant, colPhase, colAttempt, colRaisedAt, colClock, colDeadline, colWake,
                   otherThanCollector>>

\* The connection breaks while the loop waits for a message
FeedError ==
    /\ colPc = "reading"
    /\ Raise(colAttempt)
    /\ UNCHANGED <<colVariant, colPhase, colAttempt, colClock, colDeadline, colFile, colFeedSeq,
                   otherThanCollector>>

\* The server closes the connection in the regular way: the loop ends
FeedClose ==
    /\ colPc = "reading"
    /\ colPc' = "done"
    /\ UNCHANGED <<colVariant, colPhase, colAttempt, colRaisedAt, colClock, colDeadline, colWake,
                   colFile, colFeedSeq, otherThanCollector>>

\* asyncio.sleep(5) is over and main goes on to its second collect_once call
Wake ==
    /\ colPc = "sleeping"
    /\ SleepOver(colClock, colWake)
    /\ colPc' = "retry"
    /\ UNCHANGED <<colVariant, colPhase, colAttempt, colRaisedAt, colClock, colDeadline, colWake,
                   colFile, colFeedSeq, otherThanCollector>>

\* Time passes
Tick ==
    /\ colClock' = IF colClock < MaxClock THEN colClock + ClockStep ELSE colClock
    /\ colPhase' = 1 - colPhase
    /\ UNCHANGED <<colVariant, colPc, colAttempt, colRaisedAt, colDeadline, colWake,
                   colFile, colFeedSeq, otherThanCollector>>

----------------------------------------------------------------------------
(* Two extraction runs on the static cache of one station                  *)

\* Bound of the raw files of a run
MaxRunLines == 1

Runs == {1, 2}

otherThanRace == <<collectVars, extractVars, matchVars, mergeVars,
                   selectVars, classifyVars, collectorVars, readVars>>

\* static_cache = load_static_cache(static_cache_path) at the start of main
LoadCache(r) ==
    /\ racePc[r] = "idle"
    /\ raceMem' = [raceMem EXCEPT ![r] = load_static_cache(raceCache, TRUE)]
    /\ racePc' = [racePc EXCEPT ![r] = "loaded"]
    /\ raceLog' = Append(raceLog, [run |-> r, op |-> "load"])
    /\ UNCHANGED <<raceCache, raceInput, otherThanRace>>

\* The loop over the raw files: process_file records the static data of the
\* files in the run's dictionary
ProcessFiles(r) ==
    /\ racePc[r] = "loaded"
    /\ raceMem' = [raceMem EXCEPT ![r] = ReadLines(raceInput[r], <<>>, raceMem[r]).cache]
    /\ racePc' = [racePc EXCEPT ![r] = "processed"]
    /\ UNCHANGED <<raceCache, raceInput, raceLog, otherThanRace>>

\* save_static_cache(static_cache_path, static_cache) at the end of main: the
\* file becomes the run's dictionary
SaveCache(r) ==
    /\ racePc[r] = "processed"
    /\ raceCache' = raceMem[r]
    /\ racePc' = [racePc EXCEPT ![r] = "saved"]
    /\ raceLog' = Append(raceLog, [run |-> r, op |-> "save"])
    /\ UNCHANGED <<raceMem, raceInput, otherThanRace>>

----------------------------------------------------------------------------
(* The segment_range text between the Window Matcher and the Segment       *)
(* Selector.  A text is a sequence of tokens: the marks "," " " "/" "-",   *)
(* the word "live", a decimal number, or a word without any of these.      *)

Mark(c) == [k |-> c, v |-> "", n |-> 0]
Word(w) == [k |-> "word", v |-> w, n |-> 0]
Number(i) == [k |-> "number", v |-> "", n |-> i]

\* (mutation) both ends of the range are written as the lowest number
RangeTextLowTwice(r) ==
    <<Word(r.session), Mark("/"), Mark("live"), Number(r.low),
      Mark("-"), Mark("live"), Number(r.low)>>

\* f"{session}/live{low}-live{high}", for numbers that are not negative
RangeText(r) ==
    <<Word(r.session), Mark("/"), Mark("live"), Number(r.low),
      Mark("-"), Mark("live"), Number(r.high)>>

\* ", ".join(ranges)
RECURSIVE JoinRanges(_)
JoinRanges(ranges) ==
    IF ranges = <<>> THEN <<>>
    ELSE IF Len(ranges) = 1 THEN RangeText(ranges[1])
    ELSE RangeText(ranges[1]) \o <<Mark(","), Mark(" ")>> \o JoinRanges(Tail(ranges))

\* The segment_range column as process_day gets it from the CSV: the joined
\* ranges, or "nan" for the missing value of a row without range
SegmentRangeText(ranges) == IF ranges = <<>> THEN <<Word("nan")>> ELSE JoinRanges(ranges)

\* str.split(sep) on a text
RECURSIVE Split(_, _)
Split(text, sep) ==
    IF \A i \in 1..Len(text) : text[i].k # sep THEN <<text>>
    ELSE LET at == SetMin({i \in 1..Len(text) : text[i].k = sep})
         IN <<SubSeq(text, 1, at - 1)>> \o Split(SubSeq(text, at + 1, Len(text)), sep)

\* str.strip()
RECURSIVE Strip(_)
Strip(text) ==
    IF text = <<>> THEN <<>>
    ELSE IF text[1].k = " " THEN Strip(Tail(text))
    ELSE IF text[Len(text)].k = " " THEN Strip(SubSeq(text, 1, Len(text) - 1))
    ELSE text

Holds(text, c) == \E i \in 1..Len(text) : text[i].k = c

\* left.split("live")[-1] when "live" is in left
AfterLive(text) ==
    IF Holds(text, "live")
    THEN LET parts == Split(text, "live") IN parts[Len(parts)]
    ELSE text

\* int(s) succeeds on a number with blanks around it
IsInt(text) == Len(Strip(text)) = 1 /\ Strip(text)[1].k = "number"
IntOf(text) == Strip(text)[1].n

\* p.split("/")[0].strip() as a folder name
FolderOf(text) ==
    LET t == Strip(Split(text, "/")[1])
    IN IF Len(t) = 1 /\ t[1].k = "word" THEN t[1].v ELSE ""

\* The body of the loop of parse_segment_ranges over the parts
RECURSIVE ParseParts(_, _)
ParseParts(parts, ranges) ==
    IF parts = <<>> THEN [ranges |-> ranges, raised |-> FALSE]
    ELSE LET p == parts[1] IN
         IF ~Holds(p, "/") \/ ~Holds(p, "live") \/ ~Holds(p, "-")
         THEN ParseParts(Tail(parts), ranges)
         ELSE LET byslash == Split(p, "/")
                  ends == Split(byslash[Len(byslash)], "-")
              IN IF Len(ends) # 2
                 THEN \* left, right = ... cannot unpack: ValueError
                      [ranges |-> ranges, raised |-> TRUE]
                 ELSE LET left == AfterLive(ends[1])
                          right == AfterLive(ends[2])
                      IN IF ~IsInt(left) \/ ~IsInt(right)
                         THEN ParseParts(Tail(parts), ranges)
                         ELSE LET a == IntOf(left)
                                  b == IntOf(right)
                              IN ParseParts(Tail(parts),
                                     Append(ranges,
                                            [folder |-> FolderOf(p),
                                             start |-> IF b < a THEN b ELSE a,
                                             end |-> IF b < a THEN a ELSE b]))

\* parts = [p.strip() for p in seg_raw.split(",") if p.strip()], then the loop
parse_segment_ranges(seg_raw) ==
    LET pieces == Split(seg_raw, ",")
        stripped == [i \in 1..Len(pieces) |-> Strip(pieces[i])]
    IN ParseParts(SelectSeq(stripped, LAMBDA p : p # <<>>), <<>>)

otherThanRead == <<collectVars, extractVars, matchVars, mergeVars,
                   selectVars, classifyVars, collectorVars, raceVars>>

\* process_day takes row k of the matcher's output (merge_and_dedup copies
\* the column as it is) and parses its segment_range
ReadWindowedRow(k) ==
    /\ matcher = "done"
    /\ readRow = 0
    /\ k \in 1..Len(windowedCsv)
    /\ readRow' = k
    /\ segRaw' = SegmentRangeText(windowedCsv[k].segment_range)
    /\ parsedRanges' = parse_segment_ranges(segRaw')
    /\ UNCHANGED otherThanRead

----------------------------------------------------------------------------
(* Specifications                                                          *)

\* A raw file of the Orcasound Lab station, written by the collector with the
\* slug orcasound-lab, on a file system that does not tell the directory
\* names of the collector and of the lab extractor apart
InitStation ==
    /\ fsCaseSensitive = FALSE
    /\ stationDir = "orcasound_lab_data"
    /\ rawMeta = [written |-> TRUE, site |-> "orcasound-lab"]

InitExtractVars ==
    /\ feedLines = <<>>
    /\ staticCache = << >>
    /\ cacheReadable = TRUE
    /\ extractor = "none"
    /\ transitsCsv = <<>>

InitMatchVars ==
    /\ tsFiles = [d \in Days |-> NoFile]
    /\ tsLoaded = NoFrame
    /\ usedFiles = <<>>
    /\ tsReads = {}
    /\ dstNote = "none"
    /\ matcher = "none"
    /\ windowedCsv = <<>>

InitMergeVars ==
    /\ siblingWindowed = <<>>
    /\ merger = "none"
    /\ mergedCsv = <<>>
    /\ relRow = WindowedRow("366000001", NoCpa, NoLength, "orcasound-lab", "no_segments")
    /\ relResult = "unset"

InitSelectVars ==
    /\ s3 = [u \in AllUrls |-> "404"]
    /\ selSite = "Bush_Point"
    /\ selRanges = <<>>
    /\ selector = "none"
    /\ fetchLog = <<>>
    /\ wavFiles = <<>>
    /\ candidate = NoCandidate
    /\ summary = <<>>
    /\ summaryCsv = <<>>
    /\ clipFiles = << >>

InitClassifyVars ==
    /\ clsInput = [ratio |-> NanRatio, delta_L |-> NoDelta, site_name |-> "Bush_Point"]
    /\ clsResult = "unset"

\* main of a collector is about to make its first collect_once call
InitCollectorVars ==
    /\ colVariant = "generic"
    /\ colPc = "start"
    /\ colAttempt = 0
    /\ colRaisedAt = <<>>
    /\ colClock = 0
    /\ colPhase = 0
    /\ colDeadline = NoTime
    /\ colWake = NoTime
    /\ colFile = <<>>
    /\ colFeedSeq = 0

\* No extraction run is under way
InitRaceVars ==
    /\ raceCache = << >>
    /\ racePc = [r \in Runs |-> "idle"]
    /\ raceMem = [r \in Runs |-> << >>]
    /\ raceInput = [r \in Runs |-> <<>>]
    /\ raceLog = <<>>

\* process_day has not read a row
InitReadVars ==
    /\ readRow = 0
    /\ segRaw = <<>>
    /\ parsedRanges = [ranges |-> <<>>, raised |-> FALSE]

InitMoreVars == InitCollectorVars /\ InitRaceVars /\ InitReadVars

InitLaterVars == InitSelectVars /\ InitClassifyVars /\ InitMoreVars

Init == InitStation /\ InitExtractVars /\ InitMatchVars /\ InitMergeVars /\ InitLaterVars

\* The Transit Extractor over one raw file
NextExtract ==
    \/ \E r \in Reports : AppendLine(r)
    \/ ExtractGeneric("orcasound-lab")
    \/ ExtractLab

Next == NextExtract
Spec == Init /\ [][Next]_vars

\* The Window Matcher over segments around a CPA time
NextWindow ==
    \/ \E d \in Days, r \in WindowIndexRows : WriteIndexRow(d, r)
    \/ \E d \in Days : TouchIndexFile(d)
    \/ \E row \in WindowTransits : TransitRowGiven(row)
    \/ ProcessSites

SpecWindow == Init /\ [][NextWindow]_vars

\* The Window Matcher over index files that span about a day
NextDst ==
    \/ \E d \in Days, r \in DstIndexRows : WriteIndexRow(d, r)
    \/ \E d \in Days : TouchIndexFile(d)
    \/ \E row \in DstTransits : TransitRowGiven(row)
    \/ ProcessSites

SpecDst == Init /\ [][NextDst]_vars

\* is_acoustically_relevant on one row
InitRelevance ==
    /\ InitStation /\ InitExtractVars /\ InitMatchVars
    /\ siblingWindowed = <<>>
    /\ merger = "none"
    /\ mergedCsv = <<>>
    /\ relRow \in RelevanceRows
    /\ relResult = "unset"
    /\ InitLaterVars

NextRelevance == EvaluateRelevance

SpecRelevance == InitRelevance /\ [][NextRelevance]_vars

\* The Relevance Filter & Deduplicator over the windowed files of a day
NextMerge ==
    \/ \E row \in MergeInputRows : SiblingRowGiven(row)
    \/ ProcessDayFolder

SpecMerge == Init /\ [][NextMerge]_vars

\* Collector, extractor, matcher and merge in a row for one station
InitPipeline ==
    /\ fsCaseSensitive \in BOOLEAN
    /\ stationDir = ""
    /\ rawMeta = [written |-> FALSE, site |-> ""]
    /\ feedLines = <<>>
    /\ staticCache \in {<< >>, [m \in {"366000001"} |-> [length_m |-> 200]]}
    /\ cacheReadable = TRUE
    /\ extractor = "none"
    /\ transitsCsv = <<>>
    /\ InitMatchVars
    /\ InitMergeVars
    /\ InitLaterVars

NextPipeline ==
    \/ \E slug \in PipelineSlugs : Collect(slug)
    \/ \E r \in PipelineReports : AppendLine(r)
    \/ \E arg \in PipelineSlugs : ExtractGeneric(arg)
    \/ \E d \in Days, r \in PipelineIndexRows : WriteIndexRow(d, r)
    \/ ProcessSites
    \/ ProcessDayFolder

SpecPipeline == InitPipeline /\ [][NextPipeline]_vars

\* Reports of one vessel that passes at 20000 m or at 999.96 m
RerunReports ==
    [kind : {"PositionReport"}, mmsi : {"366000001"},
     time : ReportTimes, dist : {99996, 2000000}, sog : {NoSog}]

\* The two extractors run again and again over a raw file of Orcasound Lab
\* that the collector goes on writing between the runs
NextRerun ==
    \/ \E r \in RerunReports : AppendLine(r)
    \/ ExtractGeneric("orcasound-lab")
    \/ ExtractLab
    \/ RunAgain

SpecRerun == Init /\ [][NextRerun]_vars

\* ShipStaticData lines with and without dimensions, lines the read loop
\* cannot use, and one position report
StaticLines ==
    [kind : {"ShipStaticData"}, mmsi : Vessels, A : {0, 100}, B : {0, 50}]
BadLines == [kind : BadKinds]
FeedLines ==
    StaticLines \cup BadLines
    \cup [kind : {"PositionReport"}, mmsi : {"366000001"},
          time : {0}, dist : {99996}, sog : {NoSog}]

\* Extraction runs over such a file, with a static cache that holds an entry
\* or none and may have become unreadable
InitFeed ==
    /\ InitStation
    /\ feedLines = <<>>
    /\ staticCache \in {<< >>, [m \in {"366000001"} |-> [length_m |-> 200]]}
    /\ cacheReadable = TRUE
    /\ extractor = "none"
    /\ transitsCsv = <<>>
    /\ InitMatchVars /\ InitMergeVars /\ InitLaterVars

NextFeed ==
    \/ \E l \in FeedLines : AppendLine(l)
    \/ ExtractGeneric("orcasound-lab")
    \/ ExtractLab
    \/ RunAgain
    \/ DamageCacheFile

SpecFeed == InitFeed /\ [][NextFeed]_vars

\* What an earlier process_day left in output_audio/{date} for the same row:
\* a two-segment clip around segment 50 and its summary row
EarlierClip == <<SegKey(FolderA, 50), SegKey(FolderA, 51)>>
EarlierRow(site) ==
    SummaryRow(SelectorMmsi, site, EarlierClip, EarlierClip[1], EarlierClip, "high")

\* process_day over one row, for a bucket that serves some of its segments,
\* in an output directory that is new or holds the files of an earlier run
InitSelect ==
    /\ InitStation /\ InitExtractVars /\ InitMatchVars /\ InitMergeVars /\ InitClassifyVars
    /\ InitMoreVars
    /\ s3 = [u \in AllUrls |-> "404"]
    /\ selSite \in {"Sunset_Bay", "Bush_Point"}
    /\ selRanges \in SelectorRanges
    /\ selector = "none"
    /\ fetchLog = <<>>
    /\ wavFiles = <<>>
    /\ candidate = NoCandidate
    /\ summary = <<>>
    /\ \/ summaryCsv = <<>> /\ clipFiles = << >>
       \/ /\ summaryCsv = <<EarlierRow(selSite)>>
          /\ clipFiles = [o \in {EarlierRow(selSite).output_audio} |-> EarlierClip]

NextSelect ==
    \/ \E u \in AllUrls, resp \in {"ok", "error"} : SetResponse(u, resp)
    \/ \E loudIdx \in 1..Cardinality(AllSegKeys), firstWavMissing \in BOOLEAN,
          concatOk \in BOOLEAN, metrics \in SelectorMetrics :
            ProcessDay(loudIdx, firstWavMissing, concatOk, metrics)

SpecSelect == InitSelect /\ [][NextSelect]_vars

\* classify_confidence on every pair of the grid, for every site
InitClassify ==
    /\ InitStation /\ InitExtractVars /\ InitMatchVars /\ InitMergeVars /\ InitSelectVars
    /\ InitMoreVars
    /\ clsInput \in [ratio : ClassifyRatios, delta_L : ClassifyDeltas,
                      site_name : SelectorSites]
    /\ clsResult = "unset"

NextClassify == Classify

SpecClassify == InitClassify /\ [][NextClassify]_vars

----------------------------------------------------------------------------
(* Properties of the Transit Extractor                                     *)

MinSogOf(v) == IF v = "generic" THEN MIN_SOG_KT ELSE MIN_SOG_KT_LAB

\* Positions in the file of vessel m's qualifying points for the variant that
\* ran: inside the subscription radius, speed missing or not below the minimum
Qualifying(m) ==
    {i \in 1..Len(feedLines) :
        /\ feedLines[i].kind = "PositionReport"
        /\ feedLines[i].mmsi = m
        /\ feedLines[i].dist <= RADIUS_M * 100
        /\ (feedLines[i].sog = NoSog \/ feedLines[i].sog >= MinSogOf(extractor))}

QualifyingDists(m) == {feedLines[i].dist : i \in Qualifying(m)}

RowsOf(m) == {i \in 1..Len(transitsCsv) : transitsCsv[i].mmsi = m}

\* C1: every Transit row written by process_file (generic and Orcasound-Lab
\* variants), for every accepted stream of position reports, has
\* t_entry <= t_cpa <= t_exit.  The generic variant does not order the group
\* by time, so this is violated by a stream that is out of time order.
C1_EntryCpaExit ==
    \A i \in 1..Len(transitsCsv) :
        /\ transitsCsv[i].t_entry <= transitsCsv[i].t_cpa
        /\ transitsCsv[i].t_cpa <= transitsCsv[i].t_exit

C3_Qualifies(m) ==
    /\ Cardinality(Qualifying(m)) >= MIN_POINTS
    /\ feedLines[SetMax(Qualifying(m))].time - feedLines[SetMin(Qualifying(m))].time
           >= MIN_DWELL_SEC * 1000
    /\ SetMin(QualifyingDists(m)) <= CPA_MAX_M * 100

\* C3: the generic extractor emits a Transit for a vessel iff its qualifying
\* points (missing speed kept) number at least MIN_POINTS, span at least
\* MIN_DWELL_SEC and come within the CPA ceiling, thresholds included; and it
\* emits at most one Transit per MMSI per file.
C3_EmitIff ==
    extractor = "generic" =>
        \A m \in Vessels :
            /\ Cardinality(RowsOf(m)) <= 1
            /\ (RowsOf(m) # {}) <=> C3_Qualifies(m)

\* C3 witness: a generic run kept a vessel that sits exactly on every
\* threshold (3 points, 60 s, distance equal to the ceiling) and has a point
\* with missing speed.
C3_Witness ==
    /\ extractor = "generic"
    /\ \E m \in Vessels :
          /\ RowsOf(m) # {}
          /\ Cardinality(Qualifying(m)) = MIN_POINTS
          /\ feedLines[SetMax(Qualifying(m))].time - feedLines[SetMin(Qualifying(m))].time
                 = MIN_DWELL_SEC * 1000
          /\ SetMin(QualifyingDists(m)) = CPA_MAX_M * 100
          /\ \E i \in Qualifying(m) : feedLines[i].sog = NoSog

----------------------------------------------------------------------------
(* Properties of the Window Matcher                                        *)

\* Positions of the loaded segments that overlap [t - W, t + W], both ends
\* included
InWindow(t) ==
    {i \in 1..Len(tsLoaded.rows) :
        /\ tsLoaded.rows[i].end >= t - SEARCH_WINDOW
        /\ tsLoaded.rows[i].start <= t + SEARCH_WINDOW}

\* C4: a segment is selected for a transit with CPA time T iff
\* segment.end >= T - W and segment.start <= T + W, inclusive at both ends:
\* the segments counted for a transit are exactly those, so a segment that
\* starts at T + W or ends at T - W is counted and one beyond is not.
C4_InclusiveOverlap ==
    matcher = "done" =>
        \A k \in 1..Len(windowedCsv) :
            /\ windowedCsv[k].segment_count = Cardinality(InWindow(windowedCsv[k].t_cpa))
            /\ \A x \in 1..Len(windowedCsv[k].segment_range) :
                   \E i \in InWindow(windowedCsv[k].t_cpa) :
                       /\ tsLoaded.rows[i].file.session = windowedCsv[k].segment_range[x].session
                       /\ tsLoaded.rows[i].file.num = windowedCsv[k].segment_range[x].low
            /\ \A i \in InWindow(windowedCsv[k].t_cpa) :
                   \E x \in 1..Len(windowedCsv[k].segment_range) :
                       /\ tsLoaded.rows[i].file.session = windowedCsv[k].segment_range[x].session
                       /\ windowedCsv[k].segment_range[x].low <= tsLoaded.rows[i].file.num
                       /\ tsLoaded.rows[i].file.num <= windowedCsv[k].segment_range[x].high

\* C4 witness: for T = 1000 s, W = 180 s the loaded index holds a segment that
\* starts exactly at T + W, one that ends exactly at T - W and one that starts
\* after T + W; the two boundary segments are the ones selected.
C4_Witness ==
    /\ matcher = "done"
    /\ Len(tsLoaded.rows) = 3
    /\ \E k \in 1..Len(windowedCsv) :
          /\ windowedCsv[k].t_cpa = 1000
          /\ windowedCsv[k].segment_count = 2
          /\ \E i \in InWindow(1000) : tsLoaded.rows[i].start = 1000 + SEARCH_WINDOW
          /\ \E i \in InWindow(1000) : tsLoaded.rows[i].end = 1000 - SEARCH_WINDOW
          /\ \E i \in 1..Len(tsLoaded.rows) : tsLoaded.rows[i].start = 1200

\* C5: the windowed output has exactly one row per input Transit row, in the
\* same order; a transit without overlapping segment is kept with
\* match_status = no_segments and segment_count = 0, one with overlapping
\* segments has window_found and their number.
C5_OneRowPerTransit ==
    matcher = "done" =>
        /\ Len(windowedCsv) = Len(transitsCsv)
        /\ \A k \in 1..Len(windowedCsv) :
              /\ \A f \in DOMAIN transitsCsv[k] : windowedCsv[k][f] = transitsCsv[k][f]
              /\ IF InWindow(transitsCsv[k].t_cpa) = {}
                 THEN /\ windowedCsv[k].match_status = "no_segments"
                      /\ windowedCsv[k].segment_count = 0
                 ELSE /\ windowedCsv[k].match_status = "window_found"
                      /\ windowedCsv[k].segment_count
                             = Cardinality(InWindow(transitsCsv[k].t_cpa))

\* C5 witness: a file of two transits, the first without any overlapping
\* segment and the second with several, was matched.
C5_Witness ==
    /\ matcher = "done"
    /\ Len(transitsCsv) = 2
    /\ InWindow(transitsCsv[1].t_cpa) = {}
    /\ Cardinality(InWindow(transitsCsv[2].t_cpa)) >= 2
    /\ windowedCsv[1].match_status = "no_segments"
    /\ windowedCsv[2].match_status = "window_found"

\* The previous-day and target-day rows load_timestamp_dataframe keeps: those
\* of the readable files, the first row of each identifier
C6_BaseRows ==
    LET all == (IF tsFiles["previous"].exists THEN tsFiles["previous"].rows ELSE <<>>)
               \o (IF tsFiles["target"].exists THEN tsFiles["target"].rows ELSE <<>>)
    IN {all[i] : i \in {j \in 1..Len(all) : \A h \in 1..(j - 1) : all[h].file # all[j].file}}

C6_Coverage ==
    SetMax({r.end : r \in C6_BaseRows}) - SetMin({r.start : r \in C6_BaseRows})

\* C6: with coverage = latest end - earliest start over the loaded previous
\* and target rows, the next day's file is read iff coverage < 23.5 h and the
\* file exists (its rows are then merged in); above 24.5 h no further file is
\* read; from 23.5 h to 24.5 h, bounds included, no file is read and nothing
\* is flagged.
C6_DstCoverage ==
    (matcher # "none" /\ tsLoaded.ok) =>
        /\ ("next-day" \in tsReads)
               <=> (C6_Coverage < 47 * 1800 /\ tsFiles["next-day"].exists)
        /\ "next-day" \in tsReads =>
               \A i \in 1..Len(tsFiles["next-day"].rows) :
                   \E j \in 1..Len(tsLoaded.rows) :
                       tsLoaded.rows[j].file = tsFiles["next-day"].rows[i].file
        /\ C6_Coverage > 49 * 1800 => dstNote = "fallback"
        /\ (C6_Coverage >= 47 * 1800 /\ C6_Coverage <= 49 * 1800) => dstNote = "none"

\* C6 witness: the loaded rows span exactly 23.5 h, a next-day file with a row
\* exists, and it was neither read nor was anything flagged.
C6_Witness ==
    /\ matcher = "done"
    /\ C6_Coverage = 47 * 1800
    /\ tsFiles["next-day"].rows # <<>>
    /\ "next-day" \notin tsReads
    /\ dstNote = "none"

----------------------------------------------------------------------------
(* Properties of the Relevance Filter & Deduplicator                       *)

C7_Overridden == relRow.site_name \in {"Sunset_Bay", "Sunset_Bay_data"}

\* The ceiling (m) of the size class of a vessel of known length, as claimed
C7_ClassCeiling ==
    IF relRow.length_m > 150 THEN (IF C7_Overridden THEN 9000 ELSE 8000)
    ELSE IF relRow.length_m < 50 THEN (IF C7_Overridden THEN 5000 ELSE 3000)
    ELSE (IF C7_Overridden THEN 7500 ELSE 5000)

\* C7: is_acoustically_relevant is true iff cpa_distance_m is present and does
\* not exceed the ceiling of the vessel's size class (over 150 m: large, under
\* 50 m: small, known length from 50 m to 150 m: default); a row with missing
\* CPA distance is never relevant.
C7_SizeClassCeiling ==
    relResult # "unset" =>
        /\ relRow.cpa_distance_m = NoCpa => relResult = "dropped"
        /\ relRow.length_m # NoLength =>
               (relResult = "relevant"
                   <=> (/\ relRow.cpa_distance_m # NoCpa
                        /\ relRow.cpa_distance_m <= C7_ClassCeiling * 10))

\* C7 witness: at a default station a 200 m vessel at 7,900 m was judged
\* relevant.
C7_Witness ==
    /\ relResult = "relevant"
    /\ relRow.length_m = 200
    /\ relRow.cpa_distance_m = 79000
    /\ ~C7_Overridden

\* C8: a vessel of unknown length is judged against the small ceiling (3,000 m
\* at a default station), so that one at 4,000 m is dropped.  The code sends a
\* missing length to the default ceiling instead.
C8_UnknownLengthSmallCeiling ==
    (relResult # "unset" /\ relRow.length_m = NoLength /\ relRow.cpa_distance_m # NoCpa) =>
        (relResult = "relevant"
            <=> relRow.cpa_distance_m <= (IF C7_Overridden THEN 5000 ELSE 3000) * 10)

\* The override ceiling (m) for a vessel of the given length at Sunset Bay
C9_SunsetBayCeiling(length) ==
    IF length # NoLength /\ length > 150 THEN 9000
    ELSE IF length # NoLength /\ length < 50 THEN 5000
    ELSE 7500

\* C9: the Sunset Bay override is applied to every record of that station as
\* the pipeline produces it, whatever site_name the extractor wrote: a row of
\* the station's day folder within its override ceiling (a 200 m vessel at
\* 8,500 m) survives the filter.
C9_OverrideReachesStation ==
    (merger = "done" /\ SameDir(stationDir, "Sunset_Bay_data")) =>
        \A i \in 1..Len(windowedCsv) :
            windowedCsv[i].cpa_distance_m <= C9_SunsetBayCeiling(windowedCsv[i].length_m) * 10
                => \E j \in 1..Len(mergedCsv) : mergedCsv[j].mmsi = windowedCsv[i].mmsi

C10_Input == siblingWindowed \o windowedCsv

C10_RelevantRows(m) ==
    {i \in 1..Len(C10_Input) :
        C10_Input[i].mmsi = m /\ is_acoustically_relevant(C10_Input[i])}

C10_MergedRows(m) == {j \in 1..Len(mergedCsv) : mergedCsv[j].mmsi = m}

\* C10: after process_day_folder the merged output holds exactly one row for
\* each MMSI that has an acoustically relevant windowed row in some source
\* file of the day and none for any other MMSI, and the surviving row has the
\* minimum cpa_distance_m among that MMSI's relevant rows.
C10_OneRowPerMmsi ==
    merger = "done" =>
        /\ \A j \in 1..Len(mergedCsv) : mergedCsv[j].mmsi \in Vessels
        /\ \A m \in Vessels :
              IF C10_RelevantRows(m) = {}
              THEN C10_MergedRows(m) = {}
              ELSE /\ Cardinality(C10_MergedRows(m)) = 1
                   /\ \A j \in C10_MergedRows(m) :
                         /\ \E i \in C10_RelevantRows(m) : C10_Input[i] = mergedCsv[j]
                         /\ \A i \in C10_RelevantRows(m) :
                                mergedCsv[j].cpa_distance_m <= C10_Input[i].cpa_distance_m

\* C10 witness: one vessel came in at 1200 m and then at 900 m and only its
\* 900 m row survived, while a vessel seen only at 6000 m has no row.
C10_Witness ==
    /\ merger = "done"
    /\ \E i, k \in C10_RelevantRows("366000001") :
          /\ i < k
          /\ C10_Input[i].cpa_distance_m = 12000
          /\ C10_Input[k].cpa_distance_m = 9000
    /\ \A j \in C10_MergedRows("366000001") : mergedCsv[j].cpa_distance_m = 9000
    /\ Cardinality(C10_MergedRows("366000001")) = 1
    /\ \E i \in 1..Len(C10_Input) : C10_Input[i].mmsi = "366000002"
    /\ C10_MergedRows("366000002") = {}

----------------------------------------------------------------------------
(* Properties of re-runs, of the static cache and of bad records           *)

\* C11: after a run of a stage its output for the station and day is what
\* that run computes from its inputs: when an extractor has run over the raw
\* file, the transits file holds exactly the rows process_file derives from
\* the file as it is, and no row of an earlier run (none at all when the run
\* found no transit).
C11_ArtifactOfLatestRun ==
    extractor \in {"generic", "lab"} =>
        transitsCsv = process_file(feedLines, staticCache, extractor,
                                   SiteNameOf(rawMeta, "orcasound-lab")).rows

\* C19: no step of an extraction run that reaches its end, whatever state the
\* cache file was in when the run started, removes an MMSI key from the
\* persisted static cache.
C19_NoKeyRemoved ==
    [][extractor' \in {"generic", "lab"} =>
          DOMAIN staticCache \subseteq DOMAIN staticCache']_vars

\* Index of the last ShipStaticData line of vessel m in the raw file (0: none)
C20_LastStatic(m) ==
    LET idx == {i \in 1..Len(feedLines) :
                   feedLines[i].kind = "ShipStaticData" /\ feedLines[i].mmsi = m}
    IN IF idx = {} THEN 0 ELSE SetMax(idx)

\* C20: a bad record never aborts the file: when the extractor has run over
\* a file, it did not end with an exception, and every ShipStaticData line of
\* the file, also one that follows a bad line, has reached the static cache.
C20_BadRecordSkipped ==
    extractor # "none" =>
        /\ extractor # "crashed"
        /\ \A m \in Vessels :
              C20_LastStatic(m) # 0 =>
                  /\ m \in DOMAIN staticCache
                  /\ staticCache[m].length_m =
                        LengthOfDimension(feedLines[C20_LastStatic(m)].A,
                                          feedLines[C20_LastStatic(m)].B)

----------------------------------------------------------------------------
(* Properties of the Segment Selector & Classifier                         *)

\* C12: strict selection: every emitted detection's clip is made of the
\* three segments center - 1, center, center + 1 of the center's session.
C12_StrictClip ==
    summary # <<>> =>
        candidate.saved = <<SegKey(candidate.center.folder, candidate.center.seg - 1),
                            candidate.center,
                            SegKey(candidate.center.folder, candidate.center.seg + 1)>>

C13_Fetched == {wavFiles[i] : i \in 1..Len(wavFiles)}

\* Index in selRanges of the session of the center
C13_CenterIdx ==
    CHOOSE i \in 1..Len(selRanges) : selRanges[i].folder = candidate.center.folder

\* The clip the adjacent-merge order asks for
C13_Expected ==
    LET c == candidate.center
        i == C13_CenterIdx
        r == selRanges[i]
    IN IF SegKey(c.folder, c.seg + 1) \in C13_Fetched
       THEN <<c, SegKey(c.folder, c.seg + 1)>>
       ELSE IF /\ c.seg = r.end
               /\ i < Len(selRanges)
               /\ SegKey(selRanges[i + 1].folder, selRanges[i + 1].start) \in C13_Fetched
       THEN <<c, SegKey(selRanges[i + 1].folder, selRanges[i + 1].start)>>
       ELSE IF SegKey(c.folder, c.seg - 1) \in C13_Fetched
       THEN <<SegKey(c.folder, c.seg - 1), c>>
       ELSE IF /\ c.seg = r.start
               /\ i > 1
               /\ SegKey(selRanges[i - 1].folder, selRanges[i - 1].end) \in C13_Fetched
       THEN <<SegKey(selRanges[i - 1].folder, selRanges[i - 1].end), c>>
       ELSE <<c>>

\* Segment a is earlier than segment b: an earlier session of the row, or
\* the same session and a smaller sequence number
C13_Earlier(a, b) ==
    LET ia == CHOOSE i \in 1..Len(selRanges) : selRanges[i].folder = a.folder
        ib == CHOOSE i \in 1..Len(selRanges) : selRanges[i].folder = b.folder
    IN ia < ib \/ (ia = ib /\ a.seg < b.seg)

C14_ClipIffRecord ==
    selector = "done" =>
        /\ candidate.conf = "none" =>
              /\ summary = <<>>
              /\ candidate.out \notin DOMAIN clipFiles
        /\ \A i \in 1..Len(summary) :
              /\ summary[i].acoustic_confidence \in {"high", "medium", "low"}
              /\ summary[i].output_audio \in DOMAIN clipFiles
              /\ clipFiles[summary[i].output_audio] = candidate.saved

\* A two-segment clip was saved for segment 51 and classified "none"
C14_Witness ==
    /\ selector = "done"
    /\ candidate.conf = "none"
    /\ candidate.ratio = 8
    /\ Len(candidate.saved) = 2
    /\ candidate.center = SegKey(FolderA, 51)
    /\ candidate.out \notin DOMAIN clipFiles

C15_Spec(ratio, delta_L) ==
    IF ratio = NanRatio THEN "none"
    ELSE IF ratio > 500 \/ (delta_L \notin {NoDelta, NanDelta} /\ delta_L > 600) THEN "high"
    ELSE IF ratio > 50 \/ (delta_L \notin {NoDelta, NanDelta} /\ delta_L > -100) THEN "medium"
    ELSE "none"

\* C15: at a default-threshold station ratio 6.0 gives high, 0.6 medium, 0.2
\* none and NaN none (delta_L absent or 10*log10(ratio)); a NaN ratio gives
\* none whatever delta_L is, ratio > 5 or delta_L > 6 gives high, otherwise
\* ratio > 0.5 or delta_L > -1 gives medium, otherwise none; at every station
\* the result is one of high, medium, low, none.
C15_DefaultTable ==
    clsResult # "unset" =>
        /\ clsResult \in {"high", "medium", "low", "none"}
        /\ clsInput.site_name # "Sunset_Bay" =>
              /\ clsResult = C15_Spec(clsInput.ratio, clsInput.delta_L)
              /\ (clsInput.ratio = 600 /\ clsInput.delta_L \in {NoDelta, 778})
                    => clsResult = "high"
              /\ (clsInput.ratio = 60 /\ clsInput.delta_L \in {NoDelta, -222})
                    => clsResult = "medium"
              /\ (clsInput.ratio = 20 /\ clsInput.delta_L \in {NoDelta, -699})
                    => clsResult = "none"
              /\ clsInput.ratio = NanRatio => clsResult = "none"

\* Ratio 0.2 with delta_L -6.99 at Bush Point was classified "none"
C15_Witness ==
    /\ clsInput = [ratio |-> 20, delta_L |-> -699, site_name |-> "Bush_Point"]
    /\ clsResult = "none"

\* C16: for every (ratio, delta_L) the confidence at Sunset_Bay is at least
\* the confidence at any other site, and at each site the confidence does
\* not decrease when the ratio grows with delta_L fixed, nor when delta_L
\* grows with the ratio fixed.
C16_SunsetBayMorePermissive ==
    clsResult # "unset" =>
        LET r == clsInput.ratio
            d == clsInput.delta_L
            site == clsInput.site_name
        IN /\ Rank(classify_confidence(r, d, "Sunset_Bay")) >= Rank(clsResult)
           /\ \A r2 \in ClassifyRatios \ {NanRatio} :
                 (r # NanRatio /\ r2 >= r) =>
                     Rank(classify_confidence(r2, d, site)) >= Rank(clsResult)
           /\ \A d2 \in ClassifyDeltas \ {NoDelta} :
                 (d # NoDelta /\ d2 >= d) =>
                     Rank(classify_confidence(r, d2, site)) >= Rank(clsResult)

\* Ratio 0.06 with delta_L -7.99 is "low" at Sunset Bay, which the default
\* table does not give
C16_Witness ==
    /\ clsInput = [ratio |-> 6, delta_L |-> -799, site_name |-> "Sunset_Bay"]
    /\ clsResult = "low"
    /\ classify_confidence(6, -799, "Bush_Point") = "none"

\* The plain and the zero-padded URL of the segment of a request
C17_Plain(u) == Url(u.folder, u.name.num, FALSE)
C17_Padded(u) == Url(u.folder, u.name.num, TRUE)

\* The segments of the ranges of the row
C17_Wanted ==
    {k \in AllSegKeys : \E i \in 1..Len(selRanges) :
        /\ selRanges[i].folder = k.folder
        /\ selRanges[i].start <= k.seg /\ k.seg <= selRanges[i].end}

\* C17: every segment is asked under the plain name first and under the
\* zero-padded name second, the padded one only when the plain one was not
\* fetched; a segment is downloaded iff one of the two answers, a miss on
\* both (404 or error) ends nothing: all segments of the row are tried, and
\* the candidate is built from the segments that were downloaded.
C17_TwoNamesThenMiss ==
    selector # "none" =>
        /\ \A k \in C17_Wanted :
              \E i \in 1..Len(fetchLog) : fetchLog[i].url = Url(k.folder, k.seg, FALSE)
        /\ \A i \in 1..Len(fetchLog) :
              LET u == fetchLog[i].url
              IN /\ fetchLog[i].resp = s3[u]
                 /\ u = C17_Padded(u) =>
                       /\ i > 1
                       /\ fetchLog[i - 1].url = C17_Plain(u)
                       /\ fetchLog[i - 1].resp # "ok"
                 /\ (u = C17_Plain(u) /\ fetchLog[i].resp # "ok") =>
                       /\ i < Len(fetchLog)
                       /\ fetchLog[i + 1].url = C17_Padded(u)
        /\ C13_Fetched = {k \in C17_Wanted : s3[Url(k.folder, k.seg, FALSE)] = "ok"
                                              \/ s3[Url(k.folder, k.seg, TRUE)] = "ok"}
        /\ (C13_Fetched = {}) => (selector = "done" /\ summary = <<>>)
        /\ (C13_Fetched # {}) =>
              /\ candidate.center \in C13_Fetched
              /\ \A j \in 1..Len(candidate.merge) : candidate.merge[j] \in C13_Fetched

\* Segment 50 answered an error under the plain name and was fetched under
\* the padded one, segment 51 was a miss under both names, one of them with
\* an error, and the detection was built from segment 50
C17_Witness ==
    /\ selector = "done"
    /\ s3[Url(FolderA, 50, FALSE)] = "error"
    /\ s3[Url(FolderA, 50, TRUE)] = "ok"
    /\ s3[Url(FolderA, 51, FALSE)] = "404"
    /\ s3[Url(FolderA, 51, TRUE)] = "error"
    /\ Len(fetchLog) >= 4
    /\ wavFiles = <<SegKey(FolderA, 50)>>
    /\ summary # <<>>
    /\ summary[1].loudest_seg = LiveName(50, TRUE)

\* C18: a request that fails with a timeout, a connection error or an HTTP
\* error other than 404 is followed by another request for the same name.
C18_TransientRetried ==
    \A i \in 1..Len(fetchLog) :
        fetchLog[i].resp = "error" =>
            /\ i < Len(fetchLog)
            /\ fetchLog[i + 1].url = fetchLog[i].url

\* C21: when no timestamp index file is available for a station-day that has
\* transits, the matcher still writes one windowed row per transit, each
\* marked no_segments.
C21_RowsWithoutIndex ==
    (/\ matcher # "none"
     /\ SiteDirFound
     /\ transitsCsv # <<>>
     /\ ~tsFiles["previous"].exists
     /\ ~tsFiles["target"].exists) =>
        /\ Len(windowedCsv) = Len(transitsCsv)
        /\ \A k \in 1..Len(windowedCsv) :
              /\ windowedCsv[k].mmsi = transitsCsv[k].mmsi
              /\ windowedCsv[k].match_status = "no_segments"

\* Bound of the raw file of one pass
MaxPassLines == 4

\* Reports of one vessel passing the station, some of them slower than every
\* MIN_SOG_KT
PassReports ==
    [kind : {"PositionReport"}, mmsi : {"366000001"},
     time : {0, 61500}, dist : {99996, 2000000}, sog : {NoSog, 1}]

\* The collector writes one more report of the pass to the raw file
AppendPassLine(l) ==
    /\ rawMeta.written
    /\ extractor = "none"
    /\ Len(feedLines) < MaxPassLines
    /\ feedLines' = Append(feedLines, l)
    /\ UNCHANGED <<collectVars, staticCache, cacheReadable, extractor, transitsCsv,
                   matchVars, mergeVars, laterVars>>

\* The Transit Extractor over the raw file of one pass
NextPass ==
    \/ \E r \in PassReports : AppendPassLine(r)
    \/ ExtractGeneric("orcasound-lab")
    \/ ExtractLab

SpecPass == Init /\ [][NextPass]_vars

\* Distances of all of vessel m's position reports inside the subscription
\* radius, whatever their speed
InsideDists(m) ==
    {feedLines[i].dist : i \in {j \in 1..Len(feedLines) :
        /\ feedLines[j].kind = "PositionReport"
        /\ feedLines[j].mmsi = m
        /\ feedLines[j].dist <= RADIUS_M * 100}}

\* C22: for every emitted Transit, cpa_distance_m is the minimum distance over
\* all of the vessel's position reports inside the proximity radius, those
\* slower than the minimum speed included.
C22_CpaOverAllInside ==
    \A k \in 1..Len(transitsCsv) :
        /\ InsideDists(transitsCsv[k].mmsi) # {}
        /\ transitsCsv[k].cpa_distance_m = Round1(SetMin(InsideDists(transitsCsv[k].mmsi)))

\* Windowed rows of two vessels near a default station, as several source
\* files of the day give them: with and without overlapping segments
DedupInputRows ==
    {WindowedRow(m, cpa, 30, "orcasound-lab", st) :
        m \in Vessels, cpa \in {9000, 12000}, st \in {"window_found", "no_segments"}}

\* process_day_folder over such source files
NextDedup ==
    \/ \E row \in DedupInputRows : SiblingRowGiven(row)
    \/ ProcessDayFolder

SpecDedup == Init /\ [][NextDedup]_vars

\* C27: if an MMSI has an acoustically relevant windowed row with
\* match_status = window_found on the station-day, the surviving merged row of
\* that MMSI has match_status = window_found and a non-empty segment_range.
C27_MatchSurvivesDedup ==
    merger = "done" =>
        \A m \in Vessels :
            (\E i \in C10_RelevantRows(m) : C10_Input[i].match_status = "window_found")
                => /\ C10_MergedRows(m) # {}
                   /\ \A j \in C10_MergedRows(m) :
                         /\ mergedCsv[j].match_status = "window_found"
                         /\ mergedCsv[j].segment_range # <<>>

\* The relevant rows of vessel m at its minimum CPA distance
C27_ClosestRows(m) ==
    {i \in C10_RelevantRows(m) :
        \A h \in C10_RelevantRows(m) :
            C10_Input[i].cpa_distance_m <= C10_Input[h].cpa_distance_m}

\* C27 (amended): the surviving merged row of an MMSI carries the match of its
\* closest acoustically relevant row: it has match_status = window_found and
\* a non-empty segment_range when every relevant row at the minimum CPA
\* distance is window_found, and it is no_segments with an empty range when
\* every such row is no_segments, also when a farther row is window_found.
C27_ClosestRowDecidesMatch ==
    merger = "done" =>
        \A m \in Vessels : \A j \in C10_MergedRows(m) :
            /\ (\A i \in C27_ClosestRows(m) : C10_Input[i].match_status = "window_found")
                   => /\ mergedCsv[j].match_status = "window_found"
                      /\ mergedCsv[j].segment_range # <<>>
            /\ (\A i \in C27_ClosestRows(m) : C10_Input[i].match_status = "no_segments")
                   => /\ mergedCsv[j].match_status = "no_segments"
                      /\ mergedCsv[j].segment_range = <<>>

\* C27 witness: one vessel has a window_found row at 1200 m followed by a
\* no_segments row at 900 m from another source file and its merged row is the
\* no_segments one, while the other vessel, whose only row is window_found,
\* keeps its match.
C27_Witness ==
    /\ merger = "done"
    /\ Len(mergedCsv) = 2
    /\ \E m \in Vessels :
          /\ \E i, h \in C10_RelevantRows(m) :
                /\ i < h
                /\ C10_Input[i].match_status = "window_found"
                /\ C10_Input[i].cpa_distance_m = 12000
                /\ C10_Input[h].match_status = "no_segments"
                /\ C10_Input[h].cpa_distance_m = 9000
          /\ \A j \in C10_MergedRows(m) : mergedCsv[j].match_status = "no_segments"
    /\ \E m \in Vessels :
          /\ Cardinality(C10_RelevantRows(m)) = 1
          /\ \A j \in C10_MergedRows(m) :
                /\ mergedCsv[j].match_status = "window_found"
                /\ mergedCsv[j].segment_range # <<>>

\* C29: the merged_segs value of every summary row equals the number of
\* segments contained in the clip file named by its output_audio: 2 only
\* when the concatenation of two segments succeeded, 1 when the clip is a
\* single segment, the fall-back copy of the loudest segment included.
C29_MergedSegsIsClipLength ==
    selector = "done" =>
        \A i \in 1..Len(summary) :
            /\ summary[i].output_audio \in DOMAIN clipFiles
            /\ summary[i].merged_segs = Len(clipFiles[summary[i].output_audio])

\* The index files among previous and target that hold rows
C30_Readable == {d \in {"previous", "target"} : tsFiles[d].exists /\ tsFiles[d].rows # <<>>}

\* C30: after the matcher loaded the index (previous day, target day and, on
\* a short day, the next day) no two loaded segments share an identifier and
\* the segments are in ascending order of start, also when the next-day file
\* was merged in; when only one of the previous-day and target-day files is
\* there, matching proceeds with that file alone.
C30_LoadedUniqueAndSorted ==
    /\ (matcher # "none" /\ tsLoaded.ok) =>
          \A i, j \in 1..Len(tsLoaded.rows) :
              i < j => /\ tsLoaded.rows[i].file # tsLoaded.rows[j].file
                       /\ tsLoaded.rows[i].start <= tsLoaded.rows[j].start
    /\ (/\ matcher # "none"
        /\ SiteDirFound
        /\ transitsCsv # <<>>
        /\ Cardinality(C30_Readable) = 1) =>
          /\ matcher = "done"
          /\ tsLoaded.ok
          /\ Head(usedFiles) \in C30_Readable
          /\ \A k \in 1..Len(usedFiles) : usedFiles[k] \in C30_Readable \cup {"next-day"}
          /\ Len(windowedCsv) = Len(transitsCsv)

\* C30 witness: only the target-day file exists; the day is short and the
\* next-day file, whose segment starts earlier, was merged in and sorted
\* before the target day's segment.
C30_Witness ==
    /\ matcher = "done"
    /\ ~tsFiles["previous"].exists
    /\ usedFiles = <<"target", "next-day">>
    /\ Len(tsLoaded.rows) = 2
    /\ tsLoaded.rows[1] = tsFiles["next-day"].rows[1]
    /\ tsLoaded.rows[2] = tsFiles["target"].rows[1]
    /\ tsLoaded.rows[1].start < tsLoaded.rows[2].start

\* One run of a collector, ais_collect.py or ais_collect_sunset_bay.py, against
\* a feed that may refuse the connection, deliver messages, stay silent,
\* break or close
InitCollect ==
    /\ InitStation /\ InitExtractVars /\ InitMatchVars /\ InitMergeVars
    /\ InitSelectVars /\ InitClassifyVars /\ InitRaceVars /\ InitReadVars
    /\ colVariant \in {"generic", "sunset_bay"}
    /\ colPc = "start"
    /\ colAttempt = 0
    /\ colRaisedAt = <<>>
    /\ colClock = 0
    /\ colPhase = 0
    /\ colDeadline = NoTime
    /\ colWake = NoTime
    /\ colFile = <<>>
    /\ colFeedSeq = 0

NextCollect ==
    \/ ConnectOk
    \/ ConnectFails
    \/ Receive
    \/ FeedError
    \/ FeedClose
    \/ Wake
    \/ Tick

SpecCollect == InitCollect /\ [][NextCollect]_vars

\* The same run where time passes, a pending connection attempt comes to an
\* end and a sleeping main wakes up; nothing is assumed of what the feed
\* delivers
SpecCollectLive ==
    /\ InitCollect
    /\ [][NextCollect]_vars
    /\ WF_vars(Tick)
    /\ WF_vars(Wake)
    /\ WF_vars(ConnectOk \/ ConnectFails)

C24_StopsAfterDuration ==
    (colPc = "reading" /\ colClock >= colDeadline) ~> (colPc # "reading")

\* C28: every message written to the raw file stays in it while the run goes
\* on, through the failure of the first attempt and the retry: the file only
\* grows, and it starts with exactly one _meta line; the retry keeps the
\* deadline of the first attempt.
C28_RetryKeepsFile ==
    [][/\ colAttempt >= 1 =>
            /\ Len(colFile') >= Len(colFile)
            /\ SubSeq(colFile', 1, Len(colFile)) = colFile
       /\ (colVariant = "generic" /\ colFile' # <<>>) =>
            /\ colFile'[1] = MetaLine
            /\ \A i \in 2..Len(colFile') : colFile'[i] # MetaLine
       /\ (colAttempt = 1 /\ colAttempt' = 2) => colDeadline' = colDeadline]_vars

\* The raw files of a run: up to MaxRunLines ShipStaticData lines
RunInputs == UNION {[1..n -> StaticLines] : n \in 0..MaxRunLines}

\* Two runs of ais_to_transits.py for the same station, each over its own raw
\* files, on a cache file that holds an entry or none; their steps interleave
InitRace ==
    /\ InitStation /\ InitExtractVars /\ InitMatchVars /\ InitMergeVars
    /\ InitSelectVars /\ InitClassifyVars /\ InitCollectorVars /\ InitReadVars
    /\ raceCache \in {<< >>, [m \in {"366000001"} |-> [length_m |-> 200]]}
    /\ racePc = [r \in Runs |-> "idle"]
    /\ raceMem = [r \in Runs |-> << >>]
    /\ raceInput \in [Runs -> RunInputs]
    /\ raceLog = <<>>

NextRace ==
    \/ \E r \in Runs : LoadCache(r)
    \/ \E r \in Runs : ProcessFiles(r)
    \/ \E r \in Runs : SaveCache(r)

SpecRace == InitRace /\ [][NextRace]_vars

\* The MMSIs whose static data run r recorded
C26_Recorded(r) == {raceInput[r][i].mmsi : i \in 1..Len(raceInput[r])}

\* The runs were serialized: one of them saved before the other loaded
C26_Serialized ==
    /\ Len(raceLog) = 4
    /\ raceLog[2].op = "save"

\* C26: the cache update is a read at the start and a write of the whole
\* file at the end.  Once both runs have saved, the file is the dictionary of
\* the run that saved last; when the runs were serialized it keeps the
\* entries recorded by both runs.  (That overlapping runs can lose an entry
\* is the witness.)
C26_SerializedKeepsBoth ==
    (\A r \in Runs : racePc[r] = "saved") =>
        /\ raceCache = raceMem[raceLog[4].run]
        /\ C26_Serialized =>
              \A r \in Runs : \A m \in C26_Recorded(r) : m \in DOMAIN raceCache

\* C26 witness: both runs loaded the cache before either saved, each recorded
\* a vessel the other did not, and the entry of the run that saved first is
\* missing from the cache file.
C26_LostUpdate ==
    /\ \A r \in Runs : racePc[r] = "saved"
    /\ raceLog[1].op = "load" /\ raceLog[2].op = "load"
    /\ \E r \in Runs : \E m \in C26_Recorded(r) :
          /\ raceLog[3].run = r
          /\ m \notin DOMAIN raceCache

\* Index rows of two sessions around the CPA time 1000 s: three of them
\* overlap the window, two of these in the same session
RoundTripIndexRows ==
    { Seg(SessionA, 5, 1150, 1190), Seg(SessionA, 4, 810, 820),
      Seg(SessionB, 1, 1180, 1190), Seg(SessionA, 6, 1200, 1400) }

\* The Window Matcher followed by the Segment Selector's reading of a row
NextRoundTrip ==
    \/ \E d \in Days, r \in RoundTripIndexRows : WriteIndexRow(d, r)
    \/ \E d \in Days : TouchIndexFile(d)
    \/ \E row \in WindowTransits : TransitRowGiven(row)
    \/ ProcessSites
    \/ \E k \in 1..MaxTransits : ReadWindowedRow(k)

SpecRoundTrip == Init /\ [][NextRoundTrip]_vars

\* The loaded segments that overlap the window of the row that was read, and
\* their sessions
C25_Overlapping == {tsLoaded.rows[i].file : i \in InWindow(windowedCsv[readRow].t_cpa)}
C25_Sessions == {f.session : f \in C25_Overlapping}
C25_Nums(s) == {f.num : f \in {g \in C25_Overlapping : g.session = s}}

\* C25: for every transit marked window_found the segment_range is present
\* and parse_segment_ranges reads it back as exactly one range per session
\* with an overlapping segment, in ascending order of session identifier,
\* from the minimum to the maximum sequence number of that session's
\* overlapping segments; so every overlapping segment lies in a range.
C25_RangeRoundTrip ==
    (readRow # 0 /\ windowedCsv[readRow].match_status = "window_found") =>
        LET got == parsedRanges.ranges IN
        /\ segRaw # <<Word("nan")>>
        /\ ~parsedRanges.raised
        /\ Len(got) = Cardinality(C25_Sessions)
        /\ \A x \in 1..Len(got) :
              /\ got[x].folder \in C25_Sessions
              /\ got[x].start = SetMin(C25_Nums(got[x].folder))
              /\ got[x].end = SetMax(C25_Nums(got[x].folder))
        /\ \A x, y \in 1..Len(got) : x < y => SessionBefore(got[x].folder, got[y].folder)
        /\ \A f \in C25_Overlapping :
              \E x \in 1..Len(got) :
                  /\ got[x].folder = f.session
                  /\ got[x].start <= f.num /\ f.num <= got[x].end

\* C25 witness: a row with overlapping segments of two sessions, two of them
\* in the same session with different numbers, was read back as two ranges.
C25_Witness ==
    /\ readRow # 0
    /\ Cardinality(C25_Overlapping) = 3
    /\ Len(parsedRanges.ranges) = 2
    /\ parsedRanges.ranges[1].start < parsedRanges.ranges[1].end
    /\ Len(segRaw) = 16

====
